---- MODULE Spec2Model ----
(***************************************************************************)
(* EspressoBot Tab Organizer: cleanup-candidate detection                  *)
(* (services/aiService.ts, detectCleanupCandidates), the background        *)
(* service worker's capability detection (detectStrategy, getStrategy) and *)
(* apply engine (applyCleanup, applyTabGroups), and the classification job *)
(* (categorizeTabs, categorizeTabsAI).                                     *)
(***************************************************************************)
EXTENDS Integers, Sequences, FiniteSets, TLC

VARIABLES
    \* --- the popup's cleanup detection ---
    tabs,               \* the tab list handed to detectCleanupCandidates
    now,                \* the wall clock, Date.now()
    cleanupCandidates,  \* result of the latest call
    detectedAt,         \* clock reading of the latest call
    prevCandidates,     \* result of the call before the latest
    prevDetectedAt,     \* clock reading of the call before the latest
    \* --- the browser ---
    host,               \* which grouping primitives the browser exposes
    workerScript,       \* which copy of background.js is installed
    openTabs,           \* ids of the tabs open in the current window
    vivExtData,         \* per tab, the Vivaldi metadata blob
    tabGroup,           \* per tab, the native group it is in (0: none)
    nativeGroups,       \* title and color of the native groups, by group id
    \* --- the background service worker ---
    groupingStrategy,   \* let groupingStrategy = null
    startupPc,          \* detectionPromise = detectStrategy(): pending or done
    lastProbe,          \* what the latest probe of detectStrategy() saw
    strategyWaiters,    \* getStrategy handlers awaiting detectionPromise
    strategyReplies,    \* strategies sent in reply to getStrategy, in order
    call,               \* the apply request being served and where it stands
    response,           \* what sendResponse was last called with
    log,                \* browser API traffic of the latest apply request
    nextUuid,           \* crypto.randomUUID(): number of ids drawn so far + 1
    requests,           \* apply requests received
    userCloses,         \* tabs the user closed by hand
    \* --- comparing two requests ---
    runs,               \* what earlier requests left behind, for comparison
    \* --- the classification job ---
    analysisStatus,     \* let analysisStatus = 'idle'
    analysisProposals,  \* let analysisProposals = []
    analysisError,      \* let analysisError = ''
    aiRequests,         \* the requests sent to the AI service, in order
    appState,           \* the popup's AppState
    errorMsg,           \* the popup's errorMsg
    popupPc,            \* where handleAnalyze stands
    jobStarts,          \* the calls of categorizeTabs, in order
    \* --- the popup ---
    proposals,          \* the popup's proposals
    cleanupOnly,        \* the popup's cleanupOnly
    settingsKey,        \* settings.apiKey as stored and as the popup holds it
    quickPc,            \* where handleQuickCleanup stands
    applySent,          \* applyCleanup messages sent and not yet answered
    applyTimers,        \* pending setTimeout callbacks of handleApply
    quickTimers,        \* pending setTimeout callbacks of handleQuickCleanup
    reopens,            \* times the popup was opened again
    mountPc,            \* where the status check made on mount stands
    mountReply,         \* the reply to it
    pollPc,             \* where the tick of the polling interval stands
    pollReply,          \* the reply to its status check
    readRun,            \* the last two status replies since the worker last acted
    \* --- the tab source ---
    windowTabs,         \* the tabs of the current window, as the browser has them
    chromeApi,          \* what of the chrome API the page running getOpenTabs has
    tabManagerCopy,     \* which copy of tabManager.ts is built into the popup
    sourcePc,           \* where getOpenTabs() stands
    sourceReply,        \* the worker's reply to getTabs
    tabListFrom,        \* which path produced the tab list the popup holds
    \* --- the review ---
    selectedCleanupIds, \* the popup's selectedCleanupIds
    tabIdsToClose       \* the ids of the latest applyCleanup message

detectVars == <<tabs, now, cleanupCandidates, detectedAt,
                prevCandidates, prevDetectedAt>>

browserVars == <<host, workerScript, openTabs, vivExtData, tabGroup,
                 nativeGroups>>

workerVars == <<groupingStrategy, startupPc, lastProbe, call, response, log,
                nextUuid, requests, userCloses>>

strategyVars == <<strategyWaiters, strategyReplies>>

slotVars == <<analysisStatus, analysisProposals, analysisError>>

popupVars == <<appState, errorMsg, popupPc, jobStarts>>

uiVars == <<proposals, cleanupOnly, settingsKey, quickPc, applySent,
            applyTimers, quickTimers, reopens>>

readerVars == <<mountPc, mountReply, pollPc, pollReply>>

reviewVars == <<selectedCleanupIds, tabIdsToClose>>

sourceVars == <<windowTabs, chromeApi, tabManagerCopy, sourcePc, sourceReply,
                tabListFrom>>

jobVars == <<analysisStatus, analysisProposals, analysisError, aiRequests,
             appState, errorMsg, popupPc, jobStarts,
             proposals, cleanupOnly, settingsKey, quickPc, applySent,
             applyTimers, quickTimers, reopens,
             mountPc, mountReply, pollPc, pollReply, readRun,
             windowTabs, chromeApi, tabManagerCopy, sourcePc, sourceReply,
             tabListFrom, selectedCleanupIds, tabIdsToClose>>

vars == <<tabs, now, cleanupCandidates, detectedAt,
          prevCandidates, prevDetectedAt,
          host, workerScript, openTabs, vivExtData, tabGroup, nativeGroups,
          groupingStrategy, startupPc, lastProbe, call, response, log,
          nextUuid, requests, userCloses,
          strategyWaiters, strategyReplies, runs,
          analysisStatus, analysisProposals, analysisError, aiRequests,
          appState, errorMsg, popupPc, jobStarts,
          proposals, cleanupOnly, settingsKey, quickPc, applySent,
          applyTimers, quickTimers, reopens,
          mountPc, mountReply, pollPc, pollReply, readRun,
          windowTabs, chromeApi, tabManagerCopy, sourcePc, sourceReply,
          tabListFrom, selectedCleanupIds, tabIdsToClose>>

----------------------------------------------------------------------------
(* Bounds *)

MaxTabs == 3
NumApplyTabs == 3
MaxRequests == 1
MaxStackRequests == 2
MaxUserCloses == 1
MaxGetStrategy == 2
MaxJobTabs == 1
MaxStarts == 2
MaxApplies == 2
MaxTimers == 1
MaxReopens == 1

----------------------------------------------------------------------------
(* Values *)

\* lastAccessed?: number -- the value of an absent optional field
Undefined == -1

STALE_THRESHOLD_MS == 2 * 60 * 60 * 1000

\* clock reading at the start of a behaviour (ms since epoch)
Now0 == 3 * STALE_THRESHOLD_MS

Urls == {"https://a.com", "https://b.com"}

\* a tab idle exactly the threshold at Now0, one idle a millisecond less
\* (it is stale a millisecond later), and one without the field
LastAccessedChoices == {Now0 - STALE_THRESHOLD_MS,
                        Now0 - STALE_THRESHOLD_MS + 1,
                        Undefined}

\* chrome.tabs ids are unique within a browser session
DistinctIds(s) == \A i, j \in DOMAIN s : i # j => s[i].id # s[j].id

\* Tab[] of n tabs.  Only the order of the ids matters to the detector, so
\* the ids of a list of n tabs are 1..n, in any order.
TabListsOfLen(n) ==
    {s \in [1..n -> [id : 1..n, url : Urls,
                     lastAccessed : LastAccessedChoices]] : DistinctIds(s)}

TabLists == UNION {TabListsOfLen(n) : n \in 0..MaxTabs}

----------------------------------------------------------------------------
(* JavaScript helpers *)

\* v ?? d
Coalesce(v, d) == IF v = Undefined THEN d ELSE v

\* Array.prototype.sort(cmp): a stable sort.  The comparator is given as the
\* function cmp[<<i, j>>] on the positions of s; each position is inserted
\* into the sorted prefix after the last one that need not follow it.
InsertSorted(order, i, cmp) ==
    LET before == {k \in DOMAIN order : cmp[<<order[k], i>>] <= 0}
        p      == IF before = {} THEN 0
                  ELSE CHOOSE k \in before : \A j \in before : j <= k
    IN  SubSeq(order, 1, p) \o <<i>> \o SubSeq(order, p + 1, Len(order))

ArraySort(s, cmp) ==
    LET order[n \in 0..Len(s)] ==
            IF n = 0 THEN <<>>
            ELSE LET prefix == order[n - 1] IN InsertSorted(prefix, n, cmp)
        final == order[Len(s)]
    IN  [k \in DOMAIN s |-> s[final[k]]]

\* Map<number, CleanupCandidate> as the sequence of its values in insertion
\* order; the key of a value is its tabId.
MapHas(m, key) == \E i \in DOMAIN m : m[i].tabId = key

MapSet(m, val) ==
    IF MapHas(m, val.tabId)
    THEN [i \in DOMAIN m |-> IF m[i].tabId = val.tabId THEN val ELSE m[i]]
    ELSE Append(m, val)

----------------------------------------------------------------------------
(* detectCleanupCandidates *)

\* keys of byUrl in insertion order
RECURSIVE UrlKeys(_)
UrlKeys(ts) ==
    IF ts = <<>> THEN <<>>
    ELSE LET rest == UrlKeys(SubSeq(ts, 1, Len(ts) - 1))
             t    == ts[Len(ts)]
         IN  IF t.url = "" \/ \E i \in DOMAIN rest : rest[i] = t.url
             THEN rest
             ELSE Append(rest, t.url)

ByUrl(ts, key) == SelectSeq(ts, LAMBDA t : t.url = key)

\* faulty variant: ties go to the smallest id
KeeperCompareLowestId(a, b) ==
    LET timeDiff == Coalesce(b.lastAccessed, 0) - Coalesce(a.lastAccessed, 0)
    IN  IF timeDiff # 0 THEN timeDiff ELSE a.id - b.id

KeeperCompare(a, b) ==
    LET timeDiff == Coalesce(b.lastAccessed, 0) - Coalesce(a.lastAccessed, 0)
    IN  IF timeDiff # 0 THEN timeDiff ELSE b.id - a.id

\* faulty variant: the least recently accessed tab comes first
SortGroupOldestFirst(group) ==
    ArraySort(group, [p \in (DOMAIN group) \X (DOMAIN group) |->
                         KeeperCompare(group[p[2]], group[p[1]])])

SortGroup(group) ==
    ArraySort(group, [p \in (DOMAIN group) \X (DOMAIN group) |->
                         KeeperCompare(group[p[1]], group[p[2]])])

DuplicateCandidate(tab, keeper) ==
    [tabId            |-> tab.id,
     reason           |-> "duplicate",
     lastAccessed     |-> Coalesce(tab.lastAccessed, 0),
     duplicateOfTabId |-> keeper.id]

\* faulty variant: the keeper is flagged with the rest
NonKeepersWithKeeper(sorted) == sorted

\* sorted.slice(1)
NonKeepers(sorted) == Tail(sorted)

RECURSIVE FlagGroup(_, _, _)
FlagGroup(candidates, rest, keeper) ==
    IF rest = <<>> THEN candidates
    ELSE FlagGroup(MapSet(candidates, DuplicateCandidate(Head(rest), keeper)),
                   Tail(rest), keeper)

RECURSIVE DuplicatePass(_, _, _)
DuplicatePass(candidates, ts, keys) ==
    IF keys = <<>> THEN candidates
    ELSE LET group  == ByUrl(ts, Head(keys))
             sorted == SortGroup(group)
         IN  IF Len(group) < 2
             THEN DuplicatePass(candidates, ts, Tail(keys))
             ELSE DuplicatePass(FlagGroup(candidates, NonKeepers(sorted), sorted[1]),
                                ts, Tail(keys))

\* faulty variant: the boundary value is not stale
IsStaleStrict(tab, nowMs) ==
    ~ (nowMs - Coalesce(tab.lastAccessed, nowMs) <= STALE_THRESHOLD_MS)

\* faulty variant: a missing lastAccessed counts as 0 here too
IsStaleMissingZero(tab, nowMs) ==
    ~ (nowMs - Coalesce(tab.lastAccessed, 0) < STALE_THRESHOLD_MS)

IsStale(tab, nowMs) ==
    ~ (nowMs - Coalesce(tab.lastAccessed, nowMs) < STALE_THRESHOLD_MS)

StaleCandidate(tab) ==
    [tabId            |-> tab.id,
     reason           |-> "stale",
     lastAccessed     |-> Coalesce(tab.lastAccessed, 0),
     duplicateOfTabId |-> Undefined]

\* faulty variant: a second record instead of the upgrade
MarkStaleSecondRecord(candidates, tab) == Append(candidates, StaleCandidate(tab))

MarkStale(candidates, tab) ==
    IF MapHas(candidates, tab.id)
    THEN [i \in DOMAIN candidates |->
            IF candidates[i].tabId = tab.id
            THEN [candidates[i] EXCEPT !.reason = "stale+duplicate"]
            ELSE candidates[i]]
    ELSE MapSet(candidates, StaleCandidate(tab))

RECURSIVE StalePass(_, _, _)
StalePass(candidates, ts, nowMs) ==
    IF ts = <<>> THEN candidates
    ELSE IF IsStale(Head(ts), nowMs)
         THEN StalePass(MarkStale(candidates, Head(ts)), Tail(ts), nowMs)
         ELSE StalePass(candidates, Tail(ts), nowMs)

StalestFirst(a, b) == a.lastAccessed - b.lastAccessed

\* faulty variant: the Map's insertion order is returned
SortCandidatesNone(candidates) == candidates

SortCandidates(candidates) ==
    ArraySort(candidates, [p \in (DOMAIN candidates) \X (DOMAIN candidates) |->
                              StalestFirst(candidates[p[1]], candidates[p[2]])])

\* faulty variant: a candidate without lastAccessed is stamped with the clock
detectCleanupCandidatesStamped(ts, nowMs) ==
    LET found == StalePass(DuplicatePass(<<>>, ts, UrlKeys(ts)), ts, nowMs)
    IN  SortCandidates([i \in DOMAIN found |->
            IF found[i].lastAccessed = 0
            THEN [found[i] EXCEPT !.lastAccessed = nowMs]
            ELSE found[i]])

detectCleanupCandidates(ts, nowMs) ==
    SortCandidates(StalePass(DuplicatePass(<<>>, ts, UrlKeys(ts)), ts, nowMs))

----------------------------------------------------------------------------
(* The browser and the apply requests *)

ApplyTabIds == 1..NumApplyTabs

\* "chrome": chrome.tabGroups exists; "vivaldi": it does not and tabs carry
\* the Vivaldi fields; "other": neither
Hosts == {"chrome", "vivaldi", "other"}

\* and a Vivaldi that exposes chrome.tabGroups as well
AllHosts == Hosts \cup {"vivaldi-with-groups"}

\* typeof chrome.tabGroups !== 'undefined'
HasTabGroups(h) == h \in {"chrome", "vivaldi-with-groups"}

\* tabs have splitViewId, and may have vivExtData
IsVivaldi(h) == h \in {"vivaldi", "vivaldi-with-groups"}

\* the two copies of the worker script
PublicScript == "public/background.js"

LaterScript == "unnamed/part_005"

WorkerScripts == {PublicScript, LaterScript}

Group(name, color, ids) == [groupName |-> name, color |-> color, tabIds |-> ids]

TabIdLists == {<<>>, <<1>>, <<1, 2>>, <<NumApplyTabs - 1, NumApplyTabs>>}

\* message.groups
GroupLists ==
    {<<>>}
    \cup {<<Group("Work", "blue", a)>> : a \in TabIdLists}
    \cup {<<Group("Work", "blue", a), Group("Fun", "pink", b)>> :
            a \in TabIdLists, b \in TabIdLists}

\* message.tabIdsToClose
CloseLists == {<<>>, <<1>>, <<1, 2>>}

InSeq(s, x) == \E i \in DOMAIN s : s[i] = x

\* a tab's vivExtData, parsed: the three fields the worker writes, and
\* everything else Vivaldi keeps there
NoExtData ==
    [present |-> FALSE, group |-> "undefined", fixedGroupTitle |-> "undefined",
     tabGroupColor |-> "undefined", other |-> "undefined"]

InitialExtData(h, t) ==
    IF ~ IsVivaldi(h) \/ t = 1 THEN NoExtData
    ELSE IF t = 2 THEN [NoExtData EXCEPT !.present = TRUE, !.other = "thumb-2"]
    ELSE [NoExtData EXCEPT !.present = TRUE, !.other = "thumb-n",
                           !.group = "stack-old",
                           !.fixedGroupTitle = "Old"]

Uuid(n) == "uuid-" \o ToString(n)

\* chrome.tabs.remove(ids) closes the tabs in list order and rejects at the
\* first id that is not an open tab
RECURSIVE ClosedByRemove(_, _)
ClosedByRemove(ids, open) ==
    IF ids = <<>> \/ Head(ids) \notin open THEN {}
    ELSE {Head(ids)} \cup ClosedByRemove(Tail(ids), open \ {Head(ids)})

RemoveRejects(ids, open) == Cardinality(ClosedByRemove(ids, open)) < Len(ids)

\* a native group exists as long as it has a tab
GroupExists(gid, open, groupOf) == \E t \in open : groupOf[t] = gid

----------------------------------------------------------------------------
(* detectStrategy *)

\* the test on tabs[0]: tabs[0].vivExtData !== undefined in
\* public/background.js, 'splitViewId' in tabs[0] in the later copy
CarriesField(script, h, blob) ==
    IF script = PublicScript THEN blob.present ELSE IsVivaldi(h)

\* what the probe can see: chrome.tabs.query({ currentWindow: true }) throws,
\* returns no tab, or returns the tabs of the window, any of which may be the
\* first
ProbeSights(script, h, open, ext) ==
    {"throws", "no tabs"}
    \cup {IF CarriesField(script, h, ext[t]) THEN "field" ELSE "no field" :
             t \in open}

\* faulty variant: a failing probe counts as Vivaldi
ProbeResultOptimistic(seen) ==
    IF seen \in {"field", "throws"} THEN "vivaldi-stacks" ELSE "unsupported"

ProbeResult(seen) ==
    IF seen = "field" THEN "vivaldi-stacks" ELSE "unsupported"

----------------------------------------------------------------------------
(* applyCleanup and applyTabGroups, as steps between two awaits.  The      *)
(* worker's side of a step is a function on m = [call, log, response,      *)
(* strategy, uuid, script].                                                *)

IdleCall ==
    [pc |-> "idle", entry |-> "none", tabIdsToClose |-> <<>>,
     requestGroups |-> <<>>, handed |-> FALSE, groups |-> <<>>,
     gi |-> 0, ti |-> 0, existing |-> {}, groupId |-> 0,
     stackId |-> "undefined", merged |-> NoExtData]

NewCall(entry, ids, groups) ==
    [IdleCall EXCEPT !.entry = entry, !.tabIdsToClose = ids,
                     !.requestGroups = groups]

Emit(m, event) == [m EXCEPT !.log = Append(@, event)]

\* sendResponse(...)
Finish(m, resp) == [m EXCEPT !.call.pc = "idle", !.response = resp]

NotSupported == "Tab grouping is not supported in this browser"

VIVALDI_COLOR_MAP(color) ==
    CASE color = "grey"   -> "Grey"
      [] color = "blue"   -> "Blue"
      [] color = "red"    -> "Red"
      [] color = "yellow" -> "Yellow"
      [] color = "green"  -> "Green"
      [] color = "pink"   -> "Red"
      [] color = "purple" -> "Purple"
      [] color = "cyan"   -> "Blue"
      [] color = "orange" -> "Orange"
      [] OTHER            -> "Default"

\* faulty variant: the blob is built anew
MergeExtDataReplacing(script, blob, stackId, group) ==
    [NoExtData EXCEPT !.present = TRUE,
                      !.group = stackId,
                      !.fixedGroupTitle = group.groupName,
                      !.tabGroupColor = IF script = LaterScript
                                        THEN VIVALDI_COLOR_MAP(group.color)
                                        ELSE @]

\* vivExtData.group = ...; .fixedGroupTitle = ...; and, in the later copy,
\* .tabGroupColor = ...
MergeExtData(script, blob, stackId, group) ==
    [blob EXCEPT !.present = TRUE,
                 !.group = stackId,
                 !.fixedGroupTitle = group.groupName,
                 !.tabGroupColor = IF script = LaterScript
                                   THEN VIVALDI_COLOR_MAP(group.color)
                                   ELSE @]

\* faulty variant: the id drawn for the first group is used for every group
RECURSIVE VivaldiEnterGroupOneId(_, _)
VivaldiEnterGroupOneId(m, gi) ==
    IF gi > Len(m.call.groups)
    THEN IF m.script = LaterScript
         THEN Emit([m EXCEPT !.call.pc = "awaitDebugQuery"], "tabs.query")
         ELSE Finish(m, "success")
    ELSE IF Len(m.call.groups[gi].tabIds) = 0
    THEN VivaldiEnterGroupOneId(m, gi + 1)
    ELSE Emit([m EXCEPT !.call.gi = gi, !.call.ti = 1,
                        !.call.stackId = Uuid(m.uuid),
                        !.call.pc = "awaitGet"], "tabs.get")

\* for (const group of groups) in applyTabGroupsVivaldi, from group gi on
RECURSIVE VivaldiEnterGroup(_, _)
VivaldiEnterGroup(m, gi) ==
    IF gi > Len(m.call.groups)
    THEN IF m.script = LaterScript
         THEN Emit([m EXCEPT !.call.pc = "awaitDebugQuery"], "tabs.query")
         ELSE Finish(m, "success")
    ELSE IF Len(m.call.groups[gi].tabIds) = 0
    THEN VivaldiEnterGroup(m, gi + 1)
    ELSE Emit([m EXCEPT !.call.gi = gi, !.call.ti = 1,
                        !.call.stackId = Uuid(m.uuid),
                        !.uuid = @ + 1,
                        !.call.pc = "awaitGet"], "tabs.get")

\* for (const tabId of group.tabIds), after tab ti was written or skipped
VivaldiNextTab(m) ==
    IF m.call.ti < Len(m.call.groups[m.call.gi].tabIds)
    THEN Emit([m EXCEPT !.call.ti = @ + 1, !.call.pc = "awaitGet"], "tabs.get")
    ELSE VivaldiEnterGroup(m, m.call.gi + 1)

\* catch (err) around chrome.tabs.get and chrome.tabs.update:
\* public/background.js rethrows, the later copy warns and goes on
TabFailed(m) ==
    IF m.script = PublicScript
    THEN Finish(m, "No tab with id")
    ELSE VivaldiNextTab(m)

\* faulty variant: the ids of the proposal are grouped as they are
ValidIdsUnfiltered(group, existing) == group.tabIds

\* (group.tabIds || []).filter(id => existingIds.has(id))
ValidIds(group, existing) == SelectSeq(group.tabIds, LAMBDA id : id \in existing)

\* for (const group of groups) in applyTabGroups, from group gi on
RECURSIVE ChromeEnterGroup(_, _)
ChromeEnterGroup(m, gi) ==
    IF gi > Len(m.call.groups)
    THEN Finish(m, "success")
    ELSE IF Len(ValidIds(m.call.groups[gi], m.call.existing)) = 0
    THEN ChromeEnterGroup(m, gi + 1)
    ELSE Emit([m EXCEPT !.call.gi = gi, !.call.pc = "awaitGroup"], "tabs.group")

\* applyTabGroups, once groupingStrategy is set
Dispatch(m) ==
    IF m.strategy = "vivaldi-stacks"
    THEN VivaldiEnterGroup(m, 1)
    ELSE IF m.strategy = "chrome-groups"
    THEN IF m.script = LaterScript
         THEN Emit([m EXCEPT !.call.pc = "awaitExistQuery"], "tabs.query")
         ELSE \* public/background.js groups group.tabIds as they are
              ChromeEnterGroup([m EXCEPT !.call.existing = ApplyTabIds], 1)
    ELSE Finish(m, NotSupported)

\* applyTabGroups(groups), up to its first await
EnterApplyTabGroups(m, groups, h) ==
    LET m1 == [m EXCEPT !.call.handed = TRUE, !.call.groups = groups]
    IN  IF m1.strategy = "null"
        THEN IF HasTabGroups(h)
             THEN Dispatch([m1 EXCEPT !.strategy = "chrome-groups"])
             ELSE Emit([m1 EXCEPT !.call.pc = "awaitDetectQuery"], "tabs.query")
        ELSE Dispatch(m1)

\* faulty variant: a group left without ids stays in the list
StripClosedKeepEmpty(groups, ids) ==
    [i \in DOMAIN groups |->
        [groups[i] EXCEPT !.tabIds = SelectSeq(@, LAMBDA id : ~ InSeq(ids, id))]]

\* faulty variant: only the first surviving group is applied
StripClosedFirstOnly(groups, ids) ==
    LET kept == SelectSeq(StripClosedKeepEmpty(groups, ids),
                          LAMBDA g : Len(g.tabIds) > 0)
    IN  IF kept = <<>> THEN kept ELSE <<kept[1]>>

\* groups.map(g => ({ ...g, tabIds: g.tabIds.filter(id => !closedSet.has(id)) }))
\*       .filter(g => g.tabIds.length > 0)
StripClosed(groups, ids) ==
    SelectSeq([i \in DOMAIN groups |->
                  [groups[i] EXCEPT !.tabIds =
                      SelectSeq(@, LAMBDA id : ~ InSeq(ids, id))]],
              LAMBDA g : Len(g.tabIds) > 0)

\* applyCleanup, step 2
AfterClose(m, h) ==
    IF Len(m.call.requestGroups) > 0
    THEN LET filteredGroups == StripClosed(m.call.requestGroups,
                                           m.call.tabIdsToClose)
         IN  IF Len(filteredGroups) > 0
             THEN EnterApplyTabGroups(m, filteredGroups, h)
             ELSE Finish(m, "success")
    ELSE Finish(m, "success")

\* faulty variant: the closure step is taken for empty
ClosureSkipped(ids) == FALSE

\* if (tabIdsToClose && tabIdsToClose.length > 0)
ClosureNeeded(ids) == Len(ids) > 0

\* applyCleanup, step 1, up to its await
EnterApplyCleanup(m, h) ==
    IF ClosureNeeded(m.call.tabIdsToClose)
    THEN Emit([m EXCEPT !.call.pc = "awaitRemove"], "tabs.remove")
    ELSE AfterClose(m, h)

Machine == [call |-> call, log |-> log, response |-> response,
            strategy |-> groupingStrategy, uuid |-> nextUuid,
            script |-> workerScript]

Becomes(m) ==
    /\ call' = m.call
    /\ log' = m.log
    /\ response' = m.response
    /\ groupingStrategy' = m.strategy
    /\ nextUuid' = m.uuid

Fresh(entry, ids, groups) ==
    [Machine EXCEPT !.call = NewCall(entry, ids, groups),
                    !.log = <<>>, !.response = "none"]

----------------------------------------------------------------------------
(* Actions of the apply engine *)

DetectQuiet ==
    /\ tabs = <<>>
    /\ now = Now0
    /\ cleanupCandidates = <<>>
    /\ detectedAt = Undefined
    /\ prevCandidates = <<>>
    /\ prevDetectedAt = Undefined

BrowserInit ==
    /\ openTabs = ApplyTabIds
    /\ vivExtData = [t \in ApplyTabIds |-> InitialExtData(host, t)]
    /\ tabGroup = [t \in ApplyTabIds |-> 0]
    /\ nativeGroups = <<>>

\* the worker script has run: detectStrategy() has set the strategy if
\* chrome.tabGroups exists and is waiting for its query otherwise
WorkerInit ==
    /\ groupingStrategy = IF HasTabGroups(host) THEN "chrome-groups" ELSE "null"
    /\ startupPc = IF HasTabGroups(host) THEN "done" ELSE "querying"
    /\ lastProbe = "none"
    /\ call = IdleCall
    /\ response = "none"
    /\ log = <<>>
    /\ nextUuid = 1
    /\ requests = 0
    /\ userCloses = 0

\* no reply to getCategorizationStatus
NoReply == [status |-> "none", proposals |-> <<>>, error |-> ""]

\* no reply to getTabs
NoTabsReply == [success |-> FALSE, tabs |-> <<>>]

\* getOpenTabs() is not under study: the popup is an extension page built
\* from services/tabManager.ts
SourceQuiet ==
    /\ windowTabs = <<>>
    /\ chromeApi = "extension"
    /\ tabManagerCopy = "services/tabManager.ts"
    /\ sourcePc = "idle"
    /\ sourceReply = NoTabsReply
    /\ tabListFrom = "none"
    /\ selectedCleanupIds = {}
    /\ tabIdsToClose = {}

\* the job slot as the worker script initialises it, the popup as it opens
JobQuiet ==
    /\ analysisStatus = "idle"
    /\ analysisProposals = <<>>
    /\ analysisError = ""
    /\ aiRequests = <<>>
    /\ appState = "IDLE"
    /\ errorMsg = ""
    /\ popupPc = "idle"
    /\ jobStarts = <<>>
    /\ proposals = <<>>
    /\ cleanupOnly = FALSE
    /\ settingsKey = ""
    /\ quickPc = "idle"
    /\ applySent = 0
    /\ applyTimers = 0
    /\ quickTimers = 0
    /\ reopens = 0
    /\ mountPc = "done"
    /\ mountReply = NoReply
    /\ pollPc = "idle"
    /\ pollReply = NoReply
    /\ readRun = <<>>
    /\ SourceQuiet

\* no getStrategy request yet, and no request kept for comparison
StrategyQuiet ==
    /\ strategyWaiters = 0
    /\ strategyReplies = <<>>
    /\ runs = <<>>

InitApply ==
    /\ DetectQuiet
    /\ host \in Hosts
    /\ workerScript = LaterScript
    /\ BrowserInit
    /\ WorkerInit
    /\ StrategyQuiet
    /\ JobQuiet

\* the query of the detectStrategy() call made at load returns
StartupDetectionCompletes ==
    /\ startupPc = "querying"
    /\ \E seen \in ProbeSights(workerScript, host, openTabs, vivExtData) :
          /\ groupingStrategy' = ProbeResult(seen)
          /\ lastProbe' = seen
          \* the handlers awaiting detectionPromise resume and reply
          /\ strategyReplies' =
                strategyReplies \o [i \in 1..strategyWaiters |-> ProbeResult(seen)]
    /\ strategyWaiters' = 0
    /\ startupPc' = "done"
    /\ UNCHANGED <<call, response, log, nextUuid, requests, userCloses>>
    /\ UNCHANGED browserVars
    /\ UNCHANGED detectVars
    /\ UNCHANGED runs
    /\ UNCHANGED jobVars

\* message.action === 'applyCleanup'
ReceiveApplyCleanup ==
    /\ call.pc = "idle"
    /\ requests < MaxRequests
    /\ \E ids \in CloseLists, groups \in GroupLists :
          Becomes(EnterApplyCleanup(Fresh("applyCleanup", ids, groups), host))
    /\ requests' = requests + 1
    /\ UNCHANGED <<startupPc, lastProbe, userCloses>>
    /\ UNCHANGED browserVars
    /\ UNCHANGED detectVars
    /\ UNCHANGED runs
    /\ UNCHANGED jobVars
    /\ UNCHANGED strategyVars

\* message.action === 'applyTabGroups', from a popup that sends at most limit
\* apply requests
ReceiveApplyTabGroupsUpTo(limit) ==
    /\ call.pc = "idle"
    /\ requests < limit
    /\ \E groups \in GroupLists :
          Becomes(EnterApplyTabGroups(Fresh("applyTabGroups", <<>>, groups),
                                      groups, host))
    /\ requests' = requests + 1
    /\ UNCHANGED <<startupPc, lastProbe, userCloses>>
    /\ UNCHANGED browserVars
    /\ UNCHANGED detectVars
    /\ UNCHANGED runs
    /\ UNCHANGED jobVars
    /\ UNCHANGED strategyVars

ReceiveApplyTabGroups == ReceiveApplyTabGroupsUpTo(MaxRequests)

\* message.action === 'applyTabGroups', from a user who applies stacks again
\* after the first request was answered
ReceiveStacksRequest == ReceiveApplyTabGroupsUpTo(MaxStackRequests)

\* await chrome.tabs.remove(tabIdsToClose) settles; a rejection is caught
RemoveCompletes ==
    /\ call.pc = "awaitRemove"
    /\ openTabs' = openTabs \ ClosedByRemove(call.tabIdsToClose, openTabs)
    /\ Becomes(AfterClose(
          Emit(Machine, IF RemoveRejects(call.tabIdsToClose, openTabs)
                        THEN "tabs.remove:rejected"
                        ELSE "tabs.remove:done"), host))
    /\ UNCHANGED <<startupPc, lastProbe, requests, userCloses>>
    /\ UNCHANGED <<host, workerScript, vivExtData, tabGroup, nativeGroups>>
    /\ UNCHANGED detectVars
    /\ UNCHANGED runs
    /\ UNCHANGED jobVars
    /\ UNCHANGED strategyVars

\* await detectStrategy() inside applyTabGroups settles
DetectQueryCompletes ==
    /\ call.pc = "awaitDetectQuery"
    /\ \E seen \in ProbeSights(workerScript, host, openTabs, vivExtData) :
          /\ Becomes(Dispatch([Machine EXCEPT !.strategy = ProbeResult(seen)]))
          /\ lastProbe' = seen
    /\ UNCHANGED <<startupPc, requests, userCloses>>
    /\ UNCHANGED browserVars
    /\ UNCHANGED detectVars
    /\ UNCHANGED runs
    /\ UNCHANGED jobVars
    /\ UNCHANGED strategyVars

\* const existingTabs = await chrome.tabs.query({ currentWindow: true })
ExistQueryCompletes ==
    /\ call.pc = "awaitExistQuery"
    /\ Becomes(ChromeEnterGroup([Machine EXCEPT !.call.existing = openTabs], 1))
    /\ UNCHANGED <<startupPc, lastProbe, requests, userCloses>>
    /\ UNCHANGED browserVars
    /\ UNCHANGED detectVars
    /\ UNCHANGED runs
    /\ UNCHANGED jobVars
    /\ UNCHANGED strategyVars

\* const groupId = await chrome.tabs.group({ tabIds: validIds })
GroupCompletes ==
    /\ call.pc = "awaitGroup"
    /\ LET validIds == ValidIds(call.groups[call.gi], call.existing)
           groupId  == Len(nativeGroups) + 1
       IN  IF \A i \in DOMAIN validIds : validIds[i] \in openTabs
           THEN /\ tabGroup' = [t \in ApplyTabIds |->
                                  IF InSeq(validIds, t) THEN groupId
                                  ELSE tabGroup[t]]
                /\ nativeGroups' = Append(nativeGroups,
                                          [title |-> "", color |-> "grey"])
                /\ Becomes(Emit(Emit([Machine EXCEPT
                                        !.call.groupId = groupId,
                                        !.call.pc = "awaitUpdate"],
                                     "tabs.group:done"),
                                "tabGroups.update"))
           ELSE /\ UNCHANGED <<tabGroup, nativeGroups>>
                /\ Becomes(Finish(Emit(Machine, "tabs.group:rejected"),
                                  "No tab with id"))
    /\ UNCHANGED <<startupPc, lastProbe, requests, userCloses>>
    /\ UNCHANGED <<host, workerScript, openTabs, vivExtData>>
    /\ UNCHANGED detectVars
    /\ UNCHANGED runs
    /\ UNCHANGED jobVars
    /\ UNCHANGED strategyVars

\* await chrome.tabGroups.update(groupId, { title, color })
UpdateCompletes ==
    /\ call.pc = "awaitUpdate"
    /\ IF GroupExists(call.groupId, openTabs, tabGroup)
       THEN /\ nativeGroups' =
                  [nativeGroups EXCEPT ![call.groupId] =
                      [title |-> call.groups[call.gi].groupName,
                       color |-> call.groups[call.gi].color]]
            /\ Becomes(ChromeEnterGroup(Emit(Machine, "tabGroups.update:done"),
                                        call.gi + 1))
       ELSE /\ UNCHANGED nativeGroups
            /\ Becomes(Finish(Emit(Machine, "tabGroups.update:rejected"),
                              "No group with id"))
    /\ UNCHANGED <<startupPc, lastProbe, requests, userCloses>>
    /\ UNCHANGED <<host, workerScript, openTabs, vivExtData, tabGroup>>
    /\ UNCHANGED detectVars
    /\ UNCHANGED runs
    /\ UNCHANGED jobVars
    /\ UNCHANGED strategyVars

\* const tab = await chrome.tabs.get(tabId); a rejection is caught and the
\* tab skipped
GetCompletes ==
    /\ call.pc = "awaitGet"
    /\ LET group == call.groups[call.gi]
           tabId == group.tabIds[call.ti]
       IN  IF tabId \in openTabs
           THEN Becomes(Emit([Machine EXCEPT
                                 !.call.merged =
                                     MergeExtData(workerScript, vivExtData[tabId],
                                                  call.stackId, group),
                                 !.call.pc = "awaitWrite"],
                             "tabs.update"))
           ELSE Becomes(TabFailed(Emit(Machine, "tabs.get:rejected")))
    /\ UNCHANGED <<startupPc, lastProbe, requests, userCloses>>
    /\ UNCHANGED browserVars
    /\ UNCHANGED detectVars
    /\ UNCHANGED runs
    /\ UNCHANGED jobVars
    /\ UNCHANGED strategyVars

\* await chrome.tabs.update(tabId, { vivExtData: JSON.stringify(vivExtData) })
WriteCompletes ==
    /\ call.pc = "awaitWrite"
    /\ LET tabId == call.groups[call.gi].tabIds[call.ti]
       IN  IF tabId \in openTabs
           THEN /\ vivExtData' = [vivExtData EXCEPT ![tabId] = call.merged]
                /\ Becomes(VivaldiNextTab(Emit(Machine, "tabs.update:done")))
           ELSE /\ UNCHANGED vivExtData
                /\ Becomes(TabFailed(Emit(Machine, "tabs.update:rejected")))
    /\ UNCHANGED <<startupPc, lastProbe, requests, userCloses>>
    /\ UNCHANGED <<host, workerScript, openTabs, tabGroup, nativeGroups>>
    /\ UNCHANGED detectVars
    /\ UNCHANGED runs
    /\ UNCHANGED jobVars
    /\ UNCHANGED strategyVars

\* const allTabs = await chrome.tabs.query({ currentWindow: true }), the
\* dump after the stacks are applied
DebugQueryCompletes ==
    /\ call.pc = "awaitDebugQuery"
    /\ Becomes(Finish(Machine, "success"))
    /\ UNCHANGED <<startupPc, lastProbe, requests, userCloses>>
    /\ UNCHANGED browserVars
    /\ UNCHANGED detectVars
    /\ UNCHANGED runs
    /\ UNCHANGED jobVars
    /\ UNCHANGED strategyVars

\* the user closes a tab by hand
UserClosesTab ==
    /\ userCloses < MaxUserCloses
    /\ \E t \in openTabs : openTabs' = openTabs \ {t}
    /\ userCloses' = userCloses + 1
    /\ UNCHANGED <<groupingStrategy, startupPc, lastProbe, call, response,
                   log, nextUuid, requests>>
    /\ UNCHANGED <<host, workerScript, vivExtData, tabGroup, nativeGroups>>
    /\ UNCHANGED detectVars
    /\ UNCHANGED runs
    /\ UNCHANGED jobVars
    /\ UNCHANGED strategyVars

NextApply ==
    \/ StartupDetectionCompletes
    \/ ReceiveApplyCleanup
    \/ ReceiveApplyTabGroups
    \/ RemoveCompletes
    \/ DetectQueryCompletes
    \/ ExistQueryCompletes
    \/ GroupCompletes
    \/ UpdateCompletes
    \/ GetCompletes
    \/ WriteCompletes
    \/ DebugQueryCompletes
    \/ UserClosesTab

SpecApply == InitApply /\ [][NextApply]_vars

\* Vivaldi, with either copy of the worker script
InitStacks ==
    /\ DetectQuiet
    /\ host = "vivaldi"
    /\ workerScript \in WorkerScripts
    /\ BrowserInit
    /\ WorkerInit
    /\ StrategyQuiet
    /\ JobQuiet

\* the metadata-stacks path: applyTabGroups requests, one after the other
NextStacks ==
    \/ StartupDetectionCompletes
    \/ ReceiveStacksRequest
    \/ DetectQueryCompletes
    \/ GetCompletes
    \/ WriteCompletes
    \/ DebugQueryCompletes

SpecStacks == InitStacks /\ [][NextStacks]_vars

\* public/background.js installed, with the applyCleanup handler of the plan
InitPublic ==
    /\ DetectQuiet
    /\ host \in Hosts
    /\ workerScript = PublicScript
    /\ BrowserInit
    /\ WorkerInit
    /\ StrategyQuiet
    /\ JobQuiet

\* public/background.js queries the tabs in detectStrategy only
NextPublic ==
    \/ StartupDetectionCompletes
    \/ ReceiveApplyCleanup
    \/ ReceiveApplyTabGroups
    \/ RemoveCompletes
    \/ DetectQueryCompletes
    \/ GroupCompletes
    \/ UpdateCompletes
    \/ GetCompletes
    \/ WriteCompletes
    \/ UserClosesTab

SpecPublic == InitPublic /\ [][NextPublic]_vars

----------------------------------------------------------------------------
(* The strategy cache: the detection made at load, getStrategy, and the    *)
(* detection applyTabGroups makes when it finds the cache empty.           *)

\* message.action === 'getStrategy':
\* if (!groupingStrategy) await detectionPromise; sendResponse(...)
ReceiveGetStrategy ==
    /\ strategyWaiters + Len(strategyReplies) < MaxGetStrategy
    /\ IF groupingStrategy = "null"
       THEN /\ strategyWaiters' = strategyWaiters + 1
            /\ UNCHANGED strategyReplies
       ELSE /\ strategyReplies' = Append(strategyReplies, groupingStrategy)
            /\ UNCHANGED strategyWaiters
    /\ UNCHANGED workerVars
    /\ UNCHANGED browserVars
    /\ UNCHANGED detectVars
    /\ UNCHANGED runs
    /\ UNCHANGED jobVars

\* either copy of the worker script, on any host
InitStrategy ==
    /\ DetectQuiet
    /\ host \in AllHosts
    /\ workerScript \in WorkerScripts
    /\ BrowserInit
    /\ WorkerInit
    /\ StrategyQuiet
    /\ JobQuiet

NextStrategy ==
    \/ StartupDetectionCompletes
    \/ ReceiveGetStrategy
    \/ ReceiveApplyTabGroups
    \/ DetectQueryCompletes
    \/ ExistQueryCompletes
    \/ GroupCompletes
    \/ UpdateCompletes
    \/ GetCompletes
    \/ WriteCompletes
    \/ DebugQueryCompletes

SpecStrategy == InitStrategy /\ [][NextStrategy]_vars

----------------------------------------------------------------------------
(* applyCleanup([], groups) against applyTabGroups(groups): the same groups *)
(* are sent both ways to a browser in the same state, once the start-up    *)
(* detection has settled and with no tab closed by hand.                   *)

\* what a request leaves behind.  Stack ids are random, so a stack is told by
\* the tabs that share it.
Outcome ==
    [response |-> response,
     open     |-> openTabs,
     native   |-> <<tabGroup, nativeGroups>>,
     stacks   |-> [t \in ApplyTabIds |->
                     [title |-> vivExtData[t].fixedGroupTitle,
                      color |-> vivExtData[t].tabGroupColor,
                      other |-> vivExtData[t].other,
                      mates |-> {u \in ApplyTabIds :
                                   /\ vivExtData[t].group # "undefined"
                                   /\ vivExtData[u].group = vivExtData[t].group}]]]

InitCompare ==
    /\ DetectQuiet
    /\ host \in Hosts
    /\ workerScript \in WorkerScripts
    /\ BrowserInit
    /\ startupPc = "done"
    /\ IF HasTabGroups(host)
       THEN groupingStrategy = "chrome-groups" /\ lastProbe = "none"
       ELSE /\ lastProbe \in ProbeSights(workerScript, host, openTabs, vivExtData)
            /\ groupingStrategy = ProbeResult(lastProbe)
    /\ call = IdleCall
    /\ response = "none"
    /\ log = <<>>
    /\ nextUuid = 1
    /\ requests = 0
    /\ userCloses = 0
    /\ StrategyQuiet
    /\ JobQuiet

\* message.action === 'applyCleanup' with tabIdsToClose = []
ReceiveCleanupWithoutIds ==
    /\ call.pc = "idle"
    /\ requests = 0
    /\ \E groups \in GroupLists :
          Becomes(EnterApplyCleanup(Fresh("applyCleanup", <<>>, groups), host))
    /\ requests' = requests + 1
    /\ UNCHANGED <<startupPc, lastProbe, userCloses>>
    /\ UNCHANGED browserVars
    /\ UNCHANGED detectVars
    /\ UNCHANGED strategyVars
    /\ UNCHANGED runs
    /\ UNCHANGED jobVars

\* the request is answered; its groups are sent again, as applyTabGroups, to
\* a browser in the state the first request had found
ReceiveSameAsApplyTabGroups ==
    /\ call.pc = "idle"
    /\ call.entry = "applyCleanup"
    /\ runs = <<>>
    /\ runs' = <<Outcome>>
    /\ openTabs' = ApplyTabIds
    /\ vivExtData' = [t \in ApplyTabIds |-> InitialExtData(host, t)]
    /\ tabGroup' = [t \in ApplyTabIds |-> 0]
    /\ nativeGroups' = <<>>
    /\ Becomes(EnterApplyTabGroups(
                   Fresh("applyTabGroups", <<>>, call.requestGroups),
                   call.requestGroups, host))
    /\ UNCHANGED <<startupPc, lastProbe, requests, userCloses>>
    /\ UNCHANGED <<host, workerScript>>
    /\ UNCHANGED detectVars
    /\ UNCHANGED strategyVars
    /\ UNCHANGED jobVars

NextCompare ==
    \/ ReceiveCleanupWithoutIds
    \/ ReceiveSameAsApplyTabGroups
    \/ ExistQueryCompletes
    \/ GroupCompletes
    \/ UpdateCompletes
    \/ GetCompletes
    \/ WriteCompletes
    \/ DebugQueryCompletes

SpecCompare == InitCompare /\ [][NextCompare]_vars

\* the browser and the worker as the detector's specification leaves them
ApplyQuiet ==
    /\ host = "chrome"
    /\ workerScript = LaterScript
    /\ BrowserInit
    /\ WorkerInit
    /\ StrategyQuiet
    /\ JobQuiet

----------------------------------------------------------------------------
(* The classification job: handleAnalyze and categorizeTabs in the popup,  *)
(* startCategorization, resetCategorizationStatus and categorizeTabsAI in  *)
(* the worker.                                                             *)

NoApiKey == "No API key configured. Open settings to add your OpenRouter API key."

\* settings.apiKey: empty, or a key
ApiKeys == {"", "sk-or-key"}

\* the tab lists handed to categorizeTabs
JobTabLists == {[i \in 1..n |-> i] : n \in 0..MaxJobTabs}

\* what the AI service can answer, and a fetch that rejects
AiOutcomes == {"rejected", "not ok", "no content", "bad json", "bad structure",
               "groups"}

\* the colors of the response schema
PaletteColors == {"grey", "blue", "red", "yellow", "green", "pink", "purple",
                  "cyan"}

\* the values of result.groups the service can send when it is an array: no
\* group, a group of the schema, a group with a color outside the palette,
\* a group without tabIds
AiGroupLists(tabIds) ==
    {<<>>,
     <<[groupName |-> "Work", color |-> "blue", tabIds |-> tabIds]>>,
     <<[groupName |-> "Work", color |-> "orange", tabIds |-> tabIds]>>,
     <<[groupName |-> "Work", color |-> "blue"]>>}

\* the message of the error categorizeTabsAI catches
AiErrorMessage(outcome) ==
    CASE outcome = "rejected"      -> "Failed to fetch"
      [] outcome = "not ok"        -> "AI request failed"
      [] outcome = "no content"    -> "No response from AI model."
      [] outcome = "bad json"      -> "Unexpected token"
      [] outcome = "bad structure" -> "Invalid response structure from AI model."

\* the start categorizeTabs is serving
CurrentStart == jobStarts[Len(jobStarts)]

Settle(result) == [jobStarts EXCEPT ![Len(jobStarts)].result = result]

\* handleAnalyze, up to await resetAnalysisStatus()
HandleAnalyze ==
    /\ popupPc = "idle"
    /\ Len(jobStarts) < MaxStarts
    /\ \E tabList \in JobTabLists, apiKey \in ApiKeys :
          jobStarts' = Append(jobStarts, [tabs |-> tabList, apiKey |-> apiKey,
                                          result |-> "pending"])
    /\ appState' = "ANALYZING"
    /\ errorMsg' = ""
    /\ popupPc' = "resetSent"
    /\ UNCHANGED <<slotVars, aiRequests>>
    /\ UNCHANGED workerVars
    /\ UNCHANGED browserVars
    /\ UNCHANGED detectVars
    /\ UNCHANGED strategyVars
    /\ UNCHANGED runs
    /\ UNCHANGED uiVars
    /\ UNCHANGED sourceVars
    /\ UNCHANGED reviewVars
    /\ UNCHANGED readerVars
    /\ UNCHANGED readRun

\* the job slot
Slot == [status |-> analysisStatus, proposals |-> analysisProposals,
         error |-> analysisError]

\* faulty variant: the proposals survive the reset
ResetSlotKeepsProposals(slot) == [slot EXCEPT !.status = "idle", !.error = ""]

\* analysisStatus = 'idle'; analysisProposals = []; analysisError = ''
ResetSlot(slot) ==
    [slot EXCEPT !.status = "idle", !.proposals = <<>>, !.error = ""]

\* message.action === 'resetCategorizationStatus', sent by handleAnalyze or
\* by the polling tick, which does nothing after it
ResetCategorizationStatus ==
    /\ \E sender \in {"handleAnalyze", "poll"} :
          IF sender = "handleAnalyze"
          THEN /\ popupPc = "resetSent"
               /\ popupPc' = "resetReplied"
               /\ UNCHANGED pollPc
          ELSE /\ pollPc = "resetSent"
               /\ pollPc' = "idle"
               /\ UNCHANGED popupPc
    /\ analysisStatus' = ResetSlot(Slot).status
    /\ analysisProposals' = ResetSlot(Slot).proposals
    /\ analysisError' = ResetSlot(Slot).error
    /\ readRun' = <<>>
    /\ UNCHANGED <<aiRequests, appState, errorMsg, jobStarts>>
    /\ UNCHANGED <<mountPc, mountReply, pollReply>>
    /\ UNCHANGED uiVars
    /\ UNCHANGED sourceVars
    /\ UNCHANGED reviewVars
    /\ UNCHANGED workerVars
    /\ UNCHANGED browserVars
    /\ UNCHANGED detectVars
    /\ UNCHANGED strategyVars
    /\ UNCHANGED runs

\* handleAnalyze resumes and calls categorizeTabs(tabs, settings), which
\* returns, throws, or sends startCategorization
CategorizeTabs ==
    /\ popupPc = "resetReplied"
    /\ IF Len(CurrentStart.tabs) = 0
       THEN \* if (!tabs.length) return []
            /\ jobStarts' = Settle("returned []")
            /\ popupPc' = "idle"
            /\ UNCHANGED <<appState, errorMsg>>
       ELSE IF CurrentStart.apiKey = ""
       THEN \* if (!settings.apiKey) throw ..., caught by handleAnalyze
            /\ jobStarts' = Settle("threw")
            /\ errorMsg' = NoApiKey
            /\ appState' = "ERROR"
            /\ popupPc' = "idle"
       ELSE /\ popupPc' = "startSent"
            /\ UNCHANGED <<appState, errorMsg, jobStarts>>
    /\ UNCHANGED <<slotVars, aiRequests>>
    /\ UNCHANGED workerVars
    /\ UNCHANGED browserVars
    /\ UNCHANGED detectVars
    /\ UNCHANGED strategyVars
    /\ UNCHANGED runs
    /\ UNCHANGED uiVars
    /\ UNCHANGED sourceVars
    /\ UNCHANGED reviewVars
    /\ UNCHANGED readerVars
    /\ UNCHANGED readRun

\* faulty variant: a start aborts the requests still outstanding
StartCategorizationAborting ==
    /\ popupPc = "startSent"
    /\ analysisStatus' = "analyzing"
    /\ analysisProposals' = <<>>
    /\ analysisError' = ""
    /\ aiRequests' = Append([r \in DOMAIN aiRequests |->
                                [aiRequests[r] EXCEPT !.settled = TRUE]],
                            [start   |-> Len(jobStarts),
                             apiKey  |-> CurrentStart.apiKey,
                             tabs    |-> CurrentStart.tabs,
                             settled |-> FALSE])
    /\ popupPc' = "startReplied"
    /\ UNCHANGED <<appState, errorMsg, jobStarts>>
    /\ UNCHANGED workerVars
    /\ UNCHANGED browserVars
    /\ UNCHANGED detectVars
    /\ UNCHANGED strategyVars
    /\ UNCHANGED runs
    /\ UNCHANGED uiVars
    /\ UNCHANGED sourceVars
    /\ UNCHANGED reviewVars
    /\ UNCHANGED readerVars
    /\ readRun' = <<>>

\* message.action === 'startCategorization': categorizeTabsAI runs up to
\* await fetch(...), then sendResponse({ success: true })
StartCategorization ==
    /\ popupPc = "startSent"
    /\ analysisStatus' = "analyzing"
    /\ analysisProposals' = <<>>
    /\ analysisError' = ""
    /\ aiRequests' = Append(aiRequests, [start   |-> Len(jobStarts),
                                         apiKey  |-> CurrentStart.apiKey,
                                         tabs    |-> CurrentStart.tabs,
                                         settled |-> FALSE])
    /\ popupPc' = "startReplied"
    /\ UNCHANGED <<appState, errorMsg, jobStarts>>
    /\ UNCHANGED workerVars
    /\ UNCHANGED browserVars
    /\ UNCHANGED detectVars
    /\ UNCHANGED strategyVars
    /\ UNCHANGED runs
    /\ UNCHANGED uiVars
    /\ UNCHANGED sourceVars
    /\ UNCHANGED reviewVars
    /\ UNCHANGED readerVars
    /\ readRun' = <<>>

\* the reply to startCategorization: resolve([]), and handleAnalyze leaves
\* the result to the polling
StartReplied ==
    /\ popupPc = "startReplied"
    /\ jobStarts' = Settle("started")
    /\ popupPc' = "idle"
    /\ UNCHANGED <<slotVars, aiRequests, appState, errorMsg>>
    /\ UNCHANGED workerVars
    /\ UNCHANGED browserVars
    /\ UNCHANGED detectVars
    /\ UNCHANGED strategyVars
    /\ UNCHANGED runs
    /\ UNCHANGED uiVars
    /\ UNCHANGED sourceVars
    /\ UNCHANGED reviewVars
    /\ UNCHANGED readerVars
    /\ UNCHANGED readRun

\* faulty variant: a response without content ends the function without a
\* word in the slot
FetchCompletesSilentOnEmpty ==
    /\ \E r \in DOMAIN aiRequests, outcome \in AiOutcomes :
       \E groups \in AiGroupLists(aiRequests[r].tabs) :
          /\ ~ aiRequests[r].settled
          /\ aiRequests' = [aiRequests EXCEPT ![r].settled = TRUE]
          /\ IF outcome = "groups"
             THEN /\ analysisProposals' = groups
                  /\ analysisStatus' = "success"
                  /\ UNCHANGED analysisError
             ELSE IF outcome = "no content"
             THEN /\ groups = <<>>
                  /\ UNCHANGED slotVars
             ELSE /\ groups = <<>>
                  /\ analysisError' = AiErrorMessage(outcome)
                  /\ analysisStatus' = "error"
                  /\ UNCHANGED analysisProposals
    /\ UNCHANGED popupVars
    /\ UNCHANGED workerVars
    /\ UNCHANGED browserVars
    /\ UNCHANGED detectVars
    /\ UNCHANGED strategyVars
    /\ UNCHANGED runs
    /\ UNCHANGED uiVars
    /\ UNCHANGED sourceVars
    /\ UNCHANGED reviewVars
    /\ UNCHANGED readerVars
    /\ readRun' = <<>>

\* await fetch(...) in categorizeTabsAI settles, and the function runs to
\* its end
FetchCompletes ==
    /\ \E r \in DOMAIN aiRequests, outcome \in AiOutcomes :
       \E groups \in AiGroupLists(aiRequests[r].tabs) :
          /\ ~ aiRequests[r].settled
          /\ aiRequests' = [aiRequests EXCEPT ![r].settled = TRUE]
          /\ IF outcome = "groups"
             THEN /\ analysisProposals' = groups
                  /\ analysisStatus' = "success"
                  /\ UNCHANGED analysisError
             ELSE /\ groups = <<>>
                  /\ analysisError' = AiErrorMessage(outcome)
                  /\ analysisStatus' = "error"
                  /\ UNCHANGED analysisProposals
    /\ UNCHANGED popupVars
    /\ UNCHANGED workerVars
    /\ UNCHANGED browserVars
    /\ UNCHANGED detectVars
    /\ UNCHANGED strategyVars
    /\ UNCHANGED runs
    /\ UNCHANGED uiVars
    /\ UNCHANGED sourceVars
    /\ UNCHANGED reviewVars
    /\ UNCHANGED readerVars
    /\ readRun' = <<>>

InitJob ==
    /\ DetectQuiet
    /\ ApplyQuiet


----------------------------------------------------------------------------
(* The popup (App.tsx): its views and buttons, the status check made on    *)
(* mount, the polling interval, handleQuickCleanup and handleApply, over   *)
(* the worker's job slot.  The worker's apply engine is seen from the      *)
(* popup: a request is sent and is answered later, with success or not.    *)

\* a tab accessed less than two hours ago
FreshTab(id, url) ==
    [id |-> id, url |-> url, lastAccessed |-> Now0 - STALE_THRESHOLD_MS + 1]

\* what getOpenTabs() hands to the popup: one tab, or two tabs on the same
\* page
PopupTabLists ==
    {<<FreshTab(1, "https://a.com")>>,
     <<FreshTab(1, "https://a.com"), FreshTab(2, "https://a.com")>>}

\* tabs.map(t => ({ id: t.id, title: t.title, url: t.url })), by id
TabIdsOf(ts) == [i \in DOMAIN ts |-> ts[i].id]

\* error || fallback
OrElse(error, fallback) == IF error = "" THEN fallback ELSE error

\* what a step of the popup leaves alone in the worker and the browser
WorkerUntouched ==
    /\ UNCHANGED <<slotVars, aiRequests, readRun>>
    /\ UNCHANGED workerVars
    /\ UNCHANGED browserVars
    /\ UNCHANGED strategyVars
    /\ UNCHANGED runs
    /\ UNCHANGED <<now, detectedAt, prevCandidates, prevDetectedAt>>
    /\ UNCHANGED sourceVars

PopupOpen == appState # "CLOSED"

\* the popup opens in a browser with chrome.tabGroups: loadTabs(),
\* loadSettings() and checkAnalysisStatus() are called on mount
PopupStartsOn(tabLists, mount) ==
    /\ tabs \in tabLists
    /\ now = Now0
    /\ cleanupCandidates = <<>>
    /\ detectedAt = Undefined
    /\ prevCandidates = <<>>
    /\ prevDetectedAt = Undefined
    /\ host = "chrome"
    /\ workerScript = LaterScript
    /\ BrowserInit
    /\ WorkerInit
    /\ StrategyQuiet
    /\ analysisStatus = "idle"
    /\ analysisProposals = <<>>
    /\ analysisError = ""
    /\ aiRequests = <<>>
    /\ appState = "IDLE"
    /\ errorMsg = ""
    /\ popupPc = "idle"
    /\ jobStarts = <<>>
    /\ proposals = <<>>
    /\ cleanupOnly = FALSE
    /\ settingsKey \in ApiKeys
    /\ quickPc = "idle"
    /\ applySent = 0
    /\ applyTimers = 0
    /\ quickTimers = 0
    /\ reopens = 0
    /\ mountPc = mount
    /\ mountReply = NoReply
    /\ pollPc = "idle"
    /\ pollReply = NoReply
    /\ readRun = <<>>
    /\ SourceQuiet

\* the popup opens: the mount effect has sent getCategorizationStatus
PopupOpensOn(tabLists) == PopupStartsOn(tabLists, "statusSent")

InitPopup == PopupOpensOn(PopupTabLists)

\* the popup opens in a window that may have no tab to list: every tab is
\* pinned or an internal page
InitGenerate == PopupOpensOn(PopupTabLists \cup {<<>>})

\* the user closes the popup: its state and its pending callbacks are gone.
\* A message already sent is handled by the worker before that.
ClosePopup ==
    /\ PopupOpen
    /\ popupPc \notin {"resetSent", "startSent"}
    /\ pollPc \notin {"statusSent", "resetSent"}
    /\ mountPc # "statusSent"
    /\ appState' = "CLOSED"
    /\ errorMsg' = ""
    /\ popupPc' = "idle"
    /\ jobStarts' = IF jobStarts # <<>> /\ CurrentStart.result = "pending"
                    THEN Settle("abandoned") ELSE jobStarts
    /\ proposals' = <<>>
    /\ cleanupOnly' = FALSE
    /\ quickPc' = "idle"
    /\ applySent' = 0
    /\ applyTimers' = 0
    /\ quickTimers' = 0
    /\ mountPc' = "done"
    /\ mountReply' = NoReply
    /\ pollPc' = "idle"
    /\ pollReply' = NoReply
    /\ tabs' = <<>>
    /\ cleanupCandidates' = <<>>
    /\ selectedCleanupIds' = {}
    /\ UNCHANGED <<settingsKey, reopens, tabIdsToClose>>
    /\ WorkerUntouched

\* the user opens the popup again: the mount effect runs
OpenPopup ==
    /\ appState = "CLOSED"
    /\ reopens < MaxReopens
    /\ reopens' = reopens + 1
    /\ appState' = "IDLE"
    /\ mountPc' = "statusSent"
    /\ tabs' \in PopupTabLists
    /\ UNCHANGED <<errorMsg, popupPc, jobStarts, proposals, cleanupOnly,
                   settingsKey, quickPc, applySent, applyTimers, quickTimers,
                   mountReply, pollPc, pollReply, cleanupCandidates,
                   selectedCleanupIds, tabIdsToClose>>
    /\ WorkerUntouched

\* the last two elements of a sequence
LastTwo(s) == IF Len(s) <= 2 THEN s ELSE SubSeq(s, Len(s) - 1, Len(s))

\* faulty variant: a terminal status is cleared as it is read
GetCategorizationStatusClearing ==
    /\ \E reader \in {"mount", "poll"} :
          IF reader = "mount"
          THEN /\ mountPc = "statusSent"
               /\ mountPc' = "statusReplied"
               /\ mountReply' = Slot
               /\ UNCHANGED <<pollPc, pollReply>>
          ELSE /\ pollPc = "statusSent"
               /\ pollPc' = "statusReplied"
               /\ pollReply' = Slot
               /\ UNCHANGED <<mountPc, mountReply>>
    /\ readRun' = LastTwo(Append(readRun, Slot))
    /\ IF analysisStatus \in {"success", "error"}
       THEN /\ analysisStatus' = "idle"
            /\ analysisProposals' = <<>>
            /\ analysisError' = ""
       ELSE UNCHANGED slotVars
    /\ UNCHANGED aiRequests
    /\ UNCHANGED popupVars
    /\ UNCHANGED uiVars
    /\ UNCHANGED sourceVars
    /\ UNCHANGED reviewVars
    /\ UNCHANGED workerVars
    /\ UNCHANGED browserVars
    /\ UNCHANGED detectVars
    /\ UNCHANGED strategyVars
    /\ UNCHANGED runs

\* message.action === 'getCategorizationStatus', sent on mount or by a tick
\* of the polling interval
GetCategorizationStatus ==
    /\ \E reader \in {"mount", "poll"} :
          IF reader = "mount"
          THEN /\ mountPc = "statusSent"
               /\ mountPc' = "statusReplied"
               /\ mountReply' = Slot
               /\ UNCHANGED <<pollPc, pollReply>>
          ELSE /\ pollPc = "statusSent"
               /\ pollPc' = "statusReplied"
               /\ pollReply' = Slot
               /\ UNCHANGED <<mountPc, mountReply>>
    /\ readRun' = LastTwo(Append(readRun, Slot))
    /\ UNCHANGED <<slotVars, aiRequests>>
    /\ UNCHANGED popupVars
    /\ UNCHANGED uiVars
    /\ UNCHANGED sourceVars
    /\ UNCHANGED reviewVars
    /\ UNCHANGED workerVars
    /\ UNCHANGED browserVars
    /\ UNCHANGED detectVars
    /\ UNCHANGED strategyVars
    /\ UNCHANGED runs

\* checkAnalysisStatus().then(...) of the mount effect
MountConsumes ==
    /\ mountPc = "statusReplied"
    /\ mountPc' = "done"
    /\ mountReply' = NoReply
    /\ IF mountReply.status = "analyzing"
       THEN /\ appState' = "ANALYZING"
            /\ UNCHANGED <<proposals, errorMsg>>
       ELSE IF mountReply.status = "success" /\ Len(mountReply.proposals) > 0
       THEN /\ proposals' = mountReply.proposals
            /\ appState' = "REVIEW"
            /\ UNCHANGED errorMsg
       ELSE IF mountReply.status = "error"
       THEN /\ errorMsg' = OrElse(mountReply.error,
                                   "Failed to analyze tabs in background.")
            /\ appState' = "ERROR"
            /\ UNCHANGED proposals
       ELSE UNCHANGED <<appState, proposals, errorMsg>>
    /\ UNCHANGED <<popupPc, jobStarts, cleanupOnly, settingsKey, quickPc,
                   applySent, applyTimers, quickTimers, reopens,
                   pollPc, pollReply, tabs, cleanupCandidates,
                   selectedCleanupIds, tabIdsToClose>>
    /\ WorkerUntouched

\* faulty variant: every tab of the popup's list is checked
SelectAllTabs(candidates) == {tabs[i].id : i \in DOMAIN tabs}

\* new Set(candidates.map(c => c.tabId))
SelectAll(candidates) == {candidates[i].tabId : i \in DOMAIN candidates}

\* a tick of the interval set while appState === AppState.ANALYZING, up to
\* await checkAnalysisStatus()
PollTick ==
    /\ appState = "ANALYZING"
    /\ pollPc = "idle"
    /\ pollPc' = "statusSent"
    /\ UNCHANGED <<appState, errorMsg, popupPc, jobStarts, proposals,
                   cleanupOnly, settingsKey, quickPc, applySent, applyTimers,
                   quickTimers, reopens, mountPc, mountReply, pollReply,
                   tabs, cleanupCandidates,
                   selectedCleanupIds, tabIdsToClose>>
    /\ WorkerUntouched

\* the tick resumes with the status, up to await resetAnalysisStatus()
PollConsumes ==
    /\ pollPc = "statusReplied"
    /\ pollReply' = NoReply
    /\ IF pollReply.status = "success"
       THEN /\ proposals' = pollReply.proposals
            /\ appState' = "REVIEW"
            /\ cleanupCandidates' = detectCleanupCandidates(tabs, now)
            /\ selectedCleanupIds' =
                  SelectAll(detectCleanupCandidates(tabs, now))
            /\ pollPc' = "resetSent"
            /\ UNCHANGED <<errorMsg, tabIdsToClose>>
       ELSE IF pollReply.status = "error"
       THEN /\ errorMsg' = OrElse(pollReply.error, "Analysis failed.")
            /\ appState' = "ERROR"
            /\ pollPc' = "resetSent"
            /\ UNCHANGED <<proposals, cleanupCandidates,
                   selectedCleanupIds, tabIdsToClose>>
       ELSE /\ pollPc' = "idle"
            /\ UNCHANGED <<appState, proposals, errorMsg, cleanupCandidates,
                   selectedCleanupIds, tabIdsToClose>>
    /\ UNCHANGED <<popupPc, jobStarts, cleanupOnly, settingsKey, quickPc,
                   applySent, applyTimers, quickTimers, reopens,
                   mountPc, mountReply, tabs>>
    /\ WorkerUntouched

\* what a click leaves alone besides the view
ClickFrame ==
    /\ UNCHANGED <<reopens, mountPc, mountReply, pollPc, pollReply>>
    /\ WorkerUntouched

\* the Settings button of the header, shown in every view
ClickSettings ==
    /\ PopupOpen
    /\ appState # "SETTINGS"
    /\ appState' = "SETTINGS"
    /\ UNCHANGED <<errorMsg, popupPc, jobStarts, proposals, cleanupOnly,
                   settingsKey, quickPc, applySent, applyTimers, quickTimers,
                   tabs, cleanupCandidates,
                   selectedCleanupIds, tabIdsToClose>>
    /\ ClickFrame

\* onBack of the settings view
ClickBack ==
    /\ appState = "SETTINGS"
    /\ appState' = "IDLE"
    /\ UNCHANGED <<errorMsg, popupPc, jobStarts, proposals, cleanupOnly,
                   settingsKey, quickPc, applySent, applyTimers, quickTimers,
                   tabs, cleanupCandidates,
                   selectedCleanupIds, tabIdsToClose>>
    /\ ClickFrame

\* handleSaveSettings; the write to chrome.storage.local is taken to
\* complete at once
SaveSettings ==
    /\ appState = "SETTINGS"
    /\ settingsKey' \in ApiKeys
    /\ appState' = "IDLE"
    /\ UNCHANGED <<errorMsg, popupPc, jobStarts, proposals, cleanupOnly,
                   quickPc, applySent, applyTimers, quickTimers,
                   tabs, cleanupCandidates,
                   selectedCleanupIds, tabIdsToClose>>
    /\ ClickFrame

\* Try Again of the error view
ClickTryAgain ==
    /\ appState = "ERROR"
    /\ appState' = "IDLE"
    /\ UNCHANGED <<errorMsg, popupPc, jobStarts, proposals, cleanupOnly,
                   settingsKey, quickPc, applySent, applyTimers, quickTimers,
                   tabs, cleanupCandidates,
                   selectedCleanupIds, tabIdsToClose>>
    /\ ClickFrame

\* Cancel of the review view
ClickCancel ==
    /\ appState = "REVIEW"
    /\ appState' = "IDLE"
    /\ cleanupOnly' = FALSE
    /\ UNCHANGED <<errorMsg, popupPc, jobStarts, proposals,
                   settingsKey, quickPc, applySent, applyTimers, quickTimers,
                   tabs, cleanupCandidates,
                   selectedCleanupIds, tabIdsToClose>>
    /\ ClickFrame

\* Generate Stacks of the idle view, disabled without a strategy or a key:
\* handleAnalyze, up to await resetAnalysisStatus()
ClickGenerateStacks ==
    /\ appState = "IDLE"
    /\ groupingStrategy \notin {"null", "unsupported"}
    /\ settingsKey # ""
    /\ popupPc = "idle"
    /\ Len(jobStarts) < MaxStarts
    /\ jobStarts' = Append(jobStarts, [tabs |-> TabIdsOf(tabs),
                                       apiKey |-> settingsKey,
                                       result |-> "pending"])
    /\ appState' = "ANALYZING"
    /\ errorMsg' = ""
    /\ popupPc' = "resetSent"
    /\ UNCHANGED <<proposals, cleanupOnly, settingsKey, quickPc, applySent,
                   applyTimers, quickTimers, tabs, cleanupCandidates,
                   selectedCleanupIds, tabIdsToClose>>
    /\ ClickFrame

\* Quick Cleanup of the idle view: handleQuickCleanup, up to
\* await getOpenTabs()
ClickQuickCleanup ==
    /\ appState = "IDLE"
    /\ quickPc = "idle"
    /\ quickTimers < MaxTimers
    /\ cleanupOnly' = TRUE
    /\ appState' = "ANALYZING"
    /\ errorMsg' = ""
    /\ quickPc' = "loading"
    /\ UNCHANGED <<popupPc, jobStarts, proposals, settingsKey, applySent,
                   applyTimers, quickTimers, tabs, cleanupCandidates,
                   selectedCleanupIds, tabIdsToClose>>
    /\ ClickFrame

\* handleQuickCleanup resumes with the tabs
QuickCleanupResumes ==
    /\ quickPc = "loading"
    /\ quickPc' = "idle"
    /\ \E currentTabs \in PopupTabLists :
          /\ tabs' = currentTabs
          /\ cleanupCandidates' = detectCleanupCandidates(currentTabs, now)
          /\ selectedCleanupIds' =
                SelectAll(detectCleanupCandidates(currentTabs, now))
          /\ IF Len(detectCleanupCandidates(currentTabs, now)) = 0
             THEN /\ appState' = "SUCCESS"
                  /\ quickTimers' = quickTimers + 1
             ELSE /\ appState' = "REVIEW"
                  /\ UNCHANGED quickTimers
    /\ UNCHANGED <<errorMsg, popupPc, jobStarts, proposals, cleanupOnly,
                   settingsKey, applySent, applyTimers, tabIdsToClose>>
    /\ ClickFrame

\* the setTimeout callback of handleQuickCleanup, 2 s later
QuickTimerFires ==
    /\ quickTimers > 0
    /\ quickTimers' = quickTimers - 1
    /\ cleanupOnly' = FALSE
    /\ appState' = "IDLE"
    /\ UNCHANGED <<errorMsg, popupPc, jobStarts, proposals, settingsKey,
                   quickPc, applySent, applyTimers, tabs, cleanupCandidates,
                   selectedCleanupIds, tabIdsToClose>>
    /\ ClickFrame

\* a checkbox of the cleanup list: handleToggleCleanup(tabId, selected)
ClickToggleCleanup ==
    /\ appState = "REVIEW"
    /\ \E i \in DOMAIN cleanupCandidates :
          selectedCleanupIds' =
              IF cleanupCandidates[i].tabId \in selectedCleanupIds
              THEN selectedCleanupIds \ {cleanupCandidates[i].tabId}
              ELSE selectedCleanupIds \cup {cleanupCandidates[i].tabId}
    /\ UNCHANGED <<appState, errorMsg, popupPc, jobStarts, proposals,
                   cleanupOnly, settingsKey, quickPc, applySent, applyTimers,
                   quickTimers, tabs, cleanupCandidates, tabIdsToClose>>
    /\ ClickFrame

\* the apply button of the review view: handleApply, up to
\* await applyCleanup(...), which sends the applyCleanup message
ClickApply ==
    /\ appState = "REVIEW"
    /\ applySent + applyTimers < MaxApplies
    /\ appState' = "APPLYING"
    /\ applySent' = applySent + 1
    /\ tabIdsToClose' = selectedCleanupIds
    /\ UNCHANGED <<errorMsg, popupPc, jobStarts, proposals, cleanupOnly,
                   settingsKey, quickPc, applyTimers, quickTimers,
                   tabs, cleanupCandidates, selectedCleanupIds>>
    /\ ClickFrame

\* the worker answers an applyCleanup message and handleApply resumes
ApplyAnswered ==
    /\ applySent > 0
    /\ applySent' = applySent - 1
    /\ \E success \in BOOLEAN :
          IF success
          THEN /\ appState' = "SUCCESS"
               /\ applyTimers' = applyTimers + 1
               /\ UNCHANGED errorMsg
          ELSE /\ errorMsg' = "Failed to apply changes."
               /\ appState' = "ERROR"
               /\ UNCHANGED applyTimers
    /\ UNCHANGED <<popupPc, jobStarts, proposals, cleanupOnly, settingsKey,
                   quickPc, quickTimers, tabs, cleanupCandidates,
                   selectedCleanupIds, tabIdsToClose>>
    /\ ClickFrame

\* the setTimeout callback of handleApply, 2.5 s later, with loadTabs()
ApplyTimerFires ==
    /\ applyTimers > 0
    /\ applyTimers' = applyTimers - 1
    /\ cleanupOnly' = FALSE
    /\ cleanupCandidates' = <<>>
    /\ selectedCleanupIds' = {}
    /\ appState' = "IDLE"
    /\ tabs' \in PopupTabLists
    /\ UNCHANGED <<errorMsg, popupPc, jobStarts, proposals, settingsKey,
                   quickPc, applySent, quickTimers, tabIdsToClose>>
    /\ ClickFrame

----------------------------------------------------------------------------
(* The tab source: getOpenTabs() of tabManager.ts, by the worker's getTabs  *)
(* handler, by the direct query, or from the mock data.  A URL is the       *)
(* sequence of its pieces, so that startsWith is a test on a prefix.        *)

MaxWindowTabs == 2

\* the prefixes the worker's getOpenTabs filters out, in both scripts
WorkerPrefixes ==
    {<<"chrome", ":", "//">>, <<"edge", ":", "//">>, <<"vivaldi", ":", "//">>,
     <<"about", ":">>, <<"chrome-extension", ":", "//">>}

TabManagerCopies == {"services/tabManager.ts", "unnamed/part_007"}

\* the prefixes the direct query of a copy of tabManager.ts filters out
DirectPrefixes(copy) ==
    IF copy = "unnamed/part_007"
    THEN {<<"chrome", ":", "//">>, <<"edge", ":", "//">>, <<"about", ":">>,
          <<"chrome-extension", ":", "//">>}
    ELSE {<<"chrome", ":", "//">>, <<"edge", ":", "//">>,
          <<"vivaldi", ":", "//">>, <<"about", ":">>,
          <<"chrome-extension", ":", "//">>}

\* the URLs a tab of the window can have; the last one is the empty string
WindowUrls ==
    {<<"https", ":", "//", "a.com">>,
     <<"chrome", ":", "//", "settings">>,
     <<"edge", ":", "//", "settings">>,
     <<"vivaldi", ":", "//", "settings">>,
     <<"about", ":", "blank">>,
     <<"chrome-extension", ":", "//", "abcdef", "/", "popup.html">>,
     <<>>}

\* a tab of the window, with a url or without the field
WindowTabChoices(id) ==
    {[id |-> id, url |-> u, pinned |-> p] : u \in WindowUrls, p \in BOOLEAN}
        \cup {[id |-> id, pinned |-> p] : p \in BOOLEAN}

\* the windows: up to MaxWindowTabs tabs, with ids 1, 2, ...
RECURSIVE Windows(_)
Windows(n) ==
    IF n = 0 THEN {<<>>}
    ELSE Windows(n - 1) \cup
         {Append(w, t) : w \in {v \in Windows(n - 1) : Len(v) = n - 1},
                         t \in WindowTabChoices(n)}

\* str.startsWith(prefix)
StartsWith(url, prefix) ==
    /\ Len(url) >= Len(prefix)
    /\ SubSeq(url, 1, Len(prefix)) = prefix

\* chrome.tabs.query({ currentWindow: true, pinned: false })
QueryUnpinned(window) == SelectSeq(window, LAMBDA t : ~ t.pinned)

\* t.url || ''
UrlOrEmpty(t) == IF "url" \in DOMAIN t THEN t.url ELSE <<>>

\* .map(...).filter(t => t.url && !t.url.startsWith(...) && ...)
MapAndFilter(queried, prefixes, lastAccessed) ==
    SelectSeq([i \in DOMAIN queried |->
                  [id |-> queried[i].id, url |-> UrlOrEmpty(queried[i]),
                   lastAccessed |-> lastAccessed]],
              LAMBDA t : /\ t.url # <<>>
                         /\ \A p \in prefixes : ~ StartsWith(t.url, p))

\* getOpenTabs() of the worker: no lastAccessed in its tabs
WorkerGetOpenTabs(window) ==
    MapAndFilter(QueryUnpinned(window), WorkerPrefixes, Undefined)

\* the direct query of getOpenTabs() in tabManager.ts; the window's tabs
\* carry no lastAccessed here, and the later copy puts Date.now() for it
DirectGetOpenTabs(copy, window, clock) ==
    MapAndFilter(QueryUnpinned(window), DirectPrefixes(copy),
                 IF copy = "unnamed/part_007" THEN Undefined ELSE clock)

MockTab(id, site, age) ==
    [id |-> id, url |-> <<"https", ":", "//", site>>,
     lastAccessed |-> Now0 - age * 60 * 1000]

MOCK_TABS ==
    <<MockTab(1, "react.dev", 5), MockTab(2, "tailwindcss.com", 20),
      MockTab(3, "youtube.com/watch?v=5qap5aO4i9A", 3 * 60),
      MockTab(4, "mail.google.com", 10), MockTab(5, "ai.google.dev", 8 * 60),
      MockTab(6, "stackoverflow.com/questions/12345", 25 * 60),
      MockTab(7, "open.spotify.com", 2),
      MockTab(8, "github.com/google/genai-js", 4 * 60)>>

\* where getOpenTabs() can run: an extension page with a worker to talk
\* to, a page with chrome.tabs only, a web preview without chrome and
\* without a window to query
ChromeApis == {"extension", "tabs only", "none"}

InitTabSource ==
    /\ DetectQuiet
    /\ host \in {"chrome", "vivaldi"}
    /\ workerScript \in WorkerScripts
    /\ BrowserInit
    /\ WorkerInit
    /\ StrategyQuiet
    /\ analysisStatus = "idle"
    /\ analysisProposals = <<>>
    /\ analysisError = ""
    /\ aiRequests = <<>>
    /\ appState = "IDLE"
    /\ errorMsg = ""
    /\ popupPc = "idle"
    /\ jobStarts = <<>>
    /\ proposals = <<>>
    /\ cleanupOnly = FALSE
    /\ settingsKey = ""
    /\ quickPc = "idle"
    /\ applySent = 0
    /\ applyTimers = 0
    /\ quickTimers = 0
    /\ reopens = 0
    /\ mountPc = "done"
    /\ mountReply = NoReply
    /\ pollPc = "idle"
    /\ pollReply = NoReply
    /\ readRun = <<>>
    /\ chromeApi \in ChromeApis
    /\ windowTabs \in IF chromeApi = "none" THEN {<<>>}
                       ELSE Windows(MaxWindowTabs)
    /\ tabManagerCopy \in TabManagerCopies
    /\ sourcePc = "idle"
    /\ sourceReply = NoTabsReply
    /\ tabListFrom = "none"
    /\ selectedCleanupIds = {}
    /\ tabIdsToClose = {}

\* what a step of getOpenTabs() leaves alone
SourceFrame ==
    /\ UNCHANGED <<now, cleanupCandidates, detectedAt, prevCandidates,
                   prevDetectedAt>>
    /\ UNCHANGED browserVars
    /\ UNCHANGED workerVars
    /\ UNCHANGED strategyVars
    /\ UNCHANGED runs
    /\ UNCHANGED <<slotVars, aiRequests, readRun>>
    /\ UNCHANGED popupVars
    /\ UNCHANGED uiVars
    /\ UNCHANGED readerVars
    /\ UNCHANGED <<windowTabs, chromeApi, tabManagerCopy>>
    /\ UNCHANGED reviewVars

\* getOpenTabs() is called: it sends getTabs to the worker, or queries the
\* tabs itself, or returns the mock data
GetOpenTabs ==
    /\ sourcePc = "idle"
    /\ tabListFrom = "none"
    /\ IF chromeApi = "extension"
       THEN /\ sourcePc' = "getTabsSent"
            /\ UNCHANGED <<tabs, tabListFrom>>
       ELSE IF chromeApi = "tabs only"
       THEN /\ tabs' = DirectGetOpenTabs(tabManagerCopy, windowTabs, now)
            /\ tabListFrom' = "direct"
            /\ UNCHANGED sourcePc
       ELSE /\ tabs' = MOCK_TABS
            /\ tabListFrom' = "mock"
            /\ UNCHANGED sourcePc
    /\ UNCHANGED sourceReply
    /\ SourceFrame

\* message.action === 'getTabs': the worker answers with its tab list, or
\* with a failure, or is not there to answer
ReceiveGetTabs ==
    /\ sourcePc = "getTabsSent"
    /\ \E answered \in BOOLEAN :
          sourceReply' = IF answered
                         THEN [success |-> TRUE,
                               tabs |-> WorkerGetOpenTabs(windowTabs)]
                         ELSE NoTabsReply
    /\ sourcePc' = "replied"
    /\ UNCHANGED <<tabs, tabListFrom>>
    /\ SourceFrame

\* getOpenTabs() resumes: response.tabs, or the direct query as a fallback
GetOpenTabsResumes ==
    /\ sourcePc = "replied"
    /\ IF sourceReply.success
       THEN /\ tabs' = sourceReply.tabs
            /\ tabListFrom' = "worker"
       ELSE /\ tabs' = DirectGetOpenTabs(tabManagerCopy, windowTabs, now)
            /\ tabListFrom' = "direct"
    /\ sourcePc' = "idle"
    /\ sourceReply' = NoTabsReply
    /\ SourceFrame

NextTabSource ==
    \/ GetOpenTabs
    \/ ReceiveGetTabs
    \/ GetOpenTabsResumes

SpecTabSource == InitTabSource /\ [][NextTabSource]_vars

\* the job as handleAnalyze starts it with any tab list and settings, and
\* the polling
NextJob ==
    \/ HandleAnalyze
    \/ ResetCategorizationStatus
    \/ CategorizeTabs
    \/ StartCategorization
    \/ StartReplied
    \/ FetchCompletes
    \/ PollTick
    \/ GetCategorizationStatus
    \/ PollConsumes

SpecJob == InitJob /\ [][NextJob]_vars

\* the job without the polling, under an AI service that eventually answers
\* or fails: a fetch that is outstanding settles
NextJobFair ==
    \/ HandleAnalyze
    \/ ResetCategorizationStatus
    \/ CategorizeTabs
    \/ StartCategorization
    \/ StartReplied
    \/ FetchCompletes

SpecJobFair == InitJob /\ [][NextJobFair]_vars /\ WF_vars(FetchCompletes)

\* the reviews: the user generates stacks or asks for a quick cleanup,
\* checks and unchecks candidates, applies or cancels
NextCleanup ==
    \/ GetCategorizationStatus
    \/ PollTick
    \/ PollConsumes
    \/ ClickCancel
    \/ ClickGenerateStacks
    \/ ResetCategorizationStatus
    \/ CategorizeTabs
    \/ StartCategorization
    \/ StartReplied
    \/ FetchCompletes
    \/ ClickQuickCleanup
    \/ QuickCleanupResumes
    \/ QuickTimerFires
    \/ ClickToggleCleanup
    \/ ClickApply
    \/ ApplyAnswered
    \/ ApplyTimerFires

\* the popup after the mount effect found the slot idle
InitCleanup == PopupStartsOn(PopupTabLists, "done")

SpecCleanup == InitCleanup /\ [][NextCleanup]_vars

\* the user generates stacks and waits for the outcome, then tries again or
\* cancels
NextGenerate ==
    \/ GetCategorizationStatus
    \/ MountConsumes
    \/ PollTick
    \/ PollConsumes
    \/ ClickTryAgain
    \/ ClickCancel
    \/ ClickGenerateStacks
    \/ ResetCategorizationStatus
    \/ CategorizeTabs
    \/ StartCategorization
    \/ StartReplied
    \/ FetchCompletes

\* every message is delivered and answered, every continuation of the
\* popup runs, the interval keeps ticking, and the AI service eventually
\* answers or fails; nothing obliges the user to click
SpecGenerateFair ==
    /\ InitGenerate
    /\ [][NextGenerate]_vars
    /\ WF_vars(GetCategorizationStatus)
    /\ WF_vars(MountConsumes)
    /\ WF_vars(PollTick)
    /\ WF_vars(PollConsumes)
    /\ WF_vars(ResetCategorizationStatus)
    /\ WF_vars(CategorizeTabs)
    /\ WF_vars(StartCategorization)
    /\ WF_vars(StartReplied)
    /\ WF_vars(FetchCompletes)

\* the popup and the job: the user visits the settings, generates stacks
\* and cancels
NextPopup ==
    \/ GetCategorizationStatus
    \/ MountConsumes
    \/ PollTick
    \/ PollConsumes
    \/ ClickSettings
    \/ ClickBack
    \/ ClickTryAgain
    \/ ClickCancel
    \/ ClickGenerateStacks
    \/ ResetCategorizationStatus
    \/ CategorizeTabs
    \/ StartCategorization
    \/ StartReplied
    \/ FetchCompletes

SpecPopup == InitPopup /\ [][NextPopup]_vars

\* the popup and the job: the user generates stacks, closes the popup and
\* opens it again
NextReopen ==
    \/ ClosePopup
    \/ OpenPopup
    \/ GetCategorizationStatus
    \/ MountConsumes
    \/ PollTick
    \/ PollConsumes
    \/ ClickGenerateStacks
    \/ ResetCategorizationStatus
    \/ CategorizeTabs
    \/ StartCategorization
    \/ StartReplied
    \/ FetchCompletes

SpecReopen == InitPopup /\ [][NextReopen]_vars

\* the popup and the apply requests: the user visits the settings, runs the
\* quick cleanup, applies and cancels
NextReview ==
    \/ GetCategorizationStatus
    \/ MountConsumes
    \/ PollTick
    \/ PollConsumes
    \/ ClickSettings
    \/ ClickBack
    \/ SaveSettings
    \/ ClickTryAgain
    \/ ClickCancel
    \/ ClickQuickCleanup
    \/ QuickCleanupResumes
    \/ QuickTimerFires
    \/ ClickToggleCleanup
    \/ ClickApply
    \/ ApplyAnswered
    \/ ApplyTimerFires

SpecReview == InitPopup /\ [][NextReview]_vars

----------------------------------------------------------------------------
(* The detector called on a tab list, at the clock's reading *)

InitDetect ==
    /\ tabs \in TabLists
    /\ now = Now0
    /\ cleanupCandidates = <<>>
    /\ detectedAt = Undefined
    /\ prevCandidates = <<>>
    /\ prevDetectedAt = Undefined
    /\ ApplyQuiet

\* the readings of Date.now(): the start of the behaviour and a millisecond
\* later, when the tab idle a millisecond less than the threshold has crossed
\* it.  The clock never runs backwards.
ClockReadings == {at \in {Now0, Now0 + 1} : at >= now}

\* const candidates = detectCleanupCandidates(tabs), which reads the clock
Detect ==
    \E at \in ClockReadings :
        /\ now' = at
        /\ prevCandidates' = cleanupCandidates
        /\ prevDetectedAt' = detectedAt
        /\ cleanupCandidates' = detectCleanupCandidates(tabs, at)
        /\ detectedAt' = at
        /\ UNCHANGED tabs
        /\ UNCHANGED browserVars
        /\ UNCHANGED workerVars
        /\ UNCHANGED strategyVars
        /\ UNCHANGED runs
        /\ UNCHANGED jobVars
    /\ UNCHANGED jobVars

NextDetect == Detect

SpecDetect == InitDetect /\ [][NextDetect]_vars

----------------------------------------------------------------------------
(* Vocabulary of the properties of detectCleanupCandidates.  They are       *)
(* stated on the input (tabs, detectedAt) and the output                    *)
(* (cleanupCandidates) of the latest call.                                  *)

Called == detectedAt # Undefined

CalledTwice == prevDetectedAt # Undefined

TabSet == {tabs[i] : i \in DOMAIN tabs}

CandidateSet == {cleanupCandidates[i] : i \in DOMAIN cleanupCandidates}

CandidatesOf(t) == {c \in CandidateSet : c.tabId = t.id}

HasLastAccessed(t) == t.lastAccessed # Undefined

\* idle for at least two hours when the detector ran at clock reading at
IdleTwoHours(t, at) == HasLastAccessed(t) /\ at - t.lastAccessed >= 7200000

SameUrl(t) == {u \in TabSet : u.url = t.url}

\* a ranks above b for the choice of the keeper: the greater lastAccessed,
\* ties broken by the greater id.  A tab without lastAccessed has no value
\* that could be the greatest, so it ranks above another tab only when that
\* one has no value either.
RanksAbove(a, b) ==
    \/ HasLastAccessed(a) /\ ~ HasLastAccessed(b)
    \/ /\ HasLastAccessed(a) /\ HasLastAccessed(b)
       /\ \/ a.lastAccessed > b.lastAccessed
          \/ a.lastAccessed = b.lastAccessed /\ a.id > b.id
    \/ ~ HasLastAccessed(a) /\ ~ HasLastAccessed(b) /\ a.id > b.id

IsKeeper(t) == \A u \in SameUrl(t) : u # t => RanksAbove(t, u)

Keeper(t) == CHOOSE k \in SameUrl(t) : IsKeeper(k)

InDuplicateGroup(t) == Cardinality(SameUrl(t)) >= 2

NonKeeperDuplicate(t) == InDuplicateGroup(t) /\ ~ IsKeeper(t)

DuplicateReasons == {"duplicate", "stale+duplicate"}

StaleReasons == {"stale", "stale+duplicate"}

----------------------------------------------------------------------------
\* C1: for a tab list with pairwise distinct ids the result holds at most one
\* candidate per tabId, and a tab that is both idle for two hours or more and
\* a non-keeper duplicate has exactly one record, with reason
\* 'stale+duplicate'.
C1_OneCandidatePerTab ==
    (Called /\ DistinctIds(tabs)) =>
        /\ \A i, j \in DOMAIN cleanupCandidates :
              i # j => cleanupCandidates[i].tabId # cleanupCandidates[j].tabId
        /\ \A t \in TabSet :
              (IdleTwoHours(t, detectedAt) /\ NonKeeperDuplicate(t)) =>
                  /\ Cardinality({i \in DOMAIN cleanupCandidates :
                                    cleanupCandidates[i].tabId = t.id}) = 1
                  /\ \A c \in CandidatesOf(t) : c.reason = "stale+duplicate"

C1_Witness ==
    /\ Called
    /\ \E t \in TabSet :
          /\ IdleTwoHours(t, detectedAt)
          /\ NonKeeperDuplicate(t)
          /\ \E c \in CandidatesOf(t) : c.reason = "stale+duplicate"

\* C2: in every group of two or more tabs with the same URL the keeper is the
\* tab with the greatest lastAccessed, ties broken by the greatest id; every
\* other tab of the group is a candidate pointing to the keeper, and the
\* keeper has no duplicate reason.
C2_KeeperIsMostRecent ==
    Called =>
        \A t \in TabSet :
            InDuplicateGroup(t) =>
                LET found == CandidatesOf(t)
                    kept  == Keeper(t)
                IN  IF IsKeeper(t)
                    THEN \A c \in found : c.reason \notin DuplicateReasons
                    ELSE /\ found # {}
                         /\ \A c \in found :
                               /\ c.reason \in DuplicateReasons
                               /\ c.duplicateOfTabId = kept.id

\* two tabs of a group tie on lastAccessed, so the id decides
C2_Witness ==
    /\ Called
    /\ \E t, u \in TabSet :
          /\ t # u /\ t.url = u.url
          /\ HasLastAccessed(t) /\ t.lastAccessed = u.lastAccessed
          /\ IsKeeper(u)
          /\ \E c \in CandidatesOf(t) : c.duplicateOfTabId = u.id

\* the tab list has exactly one group of two or more tabs sharing a URL
OneDuplicateGroup ==
    /\ \E t \in TabSet : InDuplicateGroup(t)
    /\ \A t, u \in TabSet :
          (InDuplicateGroup(t) /\ InDuplicateGroup(u)) => t.url = u.url

GroupSize == Cardinality({t \in TabSet : InDuplicateGroup(t)})

GroupKeeper == Keeper(CHOOSE t \in TabSet : InDuplicateGroup(t))

ExactlyTheNonKeepers ==
    /\ Len(cleanupCandidates) = GroupSize - 1
    /\ \A c \in CandidateSet :
          c.reason = "duplicate" /\ c.duplicateOfTabId = GroupKeeper.id

NoTabStale == \A t \in TabSet : ~ IdleTwoHours(t, detectedAt)

\* C3 as stated: one group of N >= 2 tabs sharing a URL gives exactly N-1
\* candidates, all 'duplicate', all pointing to the most recent tab.
C3_Original == (Called /\ OneDuplicateGroup) => ExactlyTheNonKeepers

\* C3, amended: ... provided no tab of the list is idle for two hours or
\* more; then one group of N >= 2 tabs sharing a URL gives exactly N-1
\* candidates, all 'duplicate', all pointing to the most recent tab of the
\* group (ties broken by the greatest id).
C3_OneGroupFresh ==
    (Called /\ OneDuplicateGroup /\ NoTabStale) => ExactlyTheNonKeepers

C3_Witness ==
    /\ Called /\ OneDuplicateGroup /\ NoTabStale
    /\ GroupSize = 3
    /\ Len(cleanupCandidates) = 2

KeeperCandidates(t) == CandidatesOf(Keeper(t))

\* C4 as stated: the most recently accessed tab of a URL shared by two or
\* more tabs is never among the candidates.
C4_Original ==
    Called => \A t \in TabSet : InDuplicateGroup(t) => KeeperCandidates(t) = {}

\* C4, amended: the most recently accessed tab of a URL shared by two or
\* more tabs is never flagged as a duplicate; it is among the candidates if
\* and only if it is itself idle for two hours or more, and then with reason
\* 'stale' and no duplicateOfTabId.  Unless it is stale, closing every
\* candidate leaves it open.
C4_KeeperOnlyStale ==
    Called =>
        \A t \in TabSet :
            InDuplicateGroup(t) =>
                LET kept  == Keeper(t)
                    found == CandidatesOf(kept)
                    stale == IdleTwoHours(kept, detectedAt)
                IN  /\ found # {} <=> stale
                    /\ \A c \in found :
                          c.reason = "stale" /\ c.duplicateOfTabId = Undefined
                    /\ ~ stale => \E u \in SameUrl(t) : CandidatesOf(u) = {}

\* a group whose keeper is fresh while another tab of it is flagged
C4_Witness ==
    /\ Called
    /\ \E t \in TabSet :
          /\ InDuplicateGroup(t)
          /\ HasLastAccessed(Keeper(t))
          /\ KeeperCandidates(t) = {}
          /\ CandidatesOf(t) # {}

TabWithId(id) == CHOOSE t \in TabSet : t.id = id

\* C6: a tab without lastAccessed counts as accessed at the time of the
\* call: it has no stale reason, and it is not flagged as the duplicate of a
\* tab whose lastAccessed is earlier than that.
C6_MissingCountsAsNow ==
    Called =>
        \A t \in TabSet :
            ~ HasLastAccessed(t) =>
                \A c \in CandidatesOf(t) :
                    /\ c.reason \notin StaleReasons
                    /\ c.duplicateOfTabId # Undefined =>
                          LET k == TabWithId(c.duplicateOfTabId)
                          IN  ~ (HasLastAccessed(k) /\ k.lastAccessed < detectedAt)

\* C7: the returned list is sorted non-decreasing by lastAccessed.
C7_SortedByLastAccessed ==
    Called =>
        \A i, j \in DOMAIN cleanupCandidates :
            i < j => cleanupCandidates[i].lastAccessed
                        <= cleanupCandidates[j].lastAccessed

\* a duplicate and an older tab that is only stale: the Map holds the
\* duplicate first, the result holds it last
C7_Witness ==
    /\ Called
    /\ Len(cleanupCandidates) >= 2
    /\ cleanupCandidates[1].reason = "stale"
    /\ cleanupCandidates[Len(cleanupCandidates)].reason = "duplicate"
    /\ cleanupCandidates[1].lastAccessed
          < cleanupCandidates[Len(cleanupCandidates)].lastAccessed

\* C8 as stated: two calls with the same tab list return the same list.
C8_Original == CalledTwice => prevCandidates = cleanupCandidates

SameSideOfThreshold ==
    \A t \in TabSet :
        IdleTwoHours(t, prevDetectedAt) <=> IdleTwoHours(t, detectedAt)

\* C8, amended: the result depends on the tab list and on the clock reading
\* of the call (Date.now()) only: two calls with the same tab list return
\* the same list whenever every tab is on the same side of the two-hour
\* threshold at both calls, in particular at the same clock reading.
C8_SameUnlessThresholdCrossed ==
    (CalledTwice /\ SameSideOfThreshold) => prevCandidates = cleanupCandidates

\* two calls at different clock readings with a non-empty result
C8_Witness ==
    /\ CalledTwice
    /\ prevDetectedAt # detectedAt
    /\ SameSideOfThreshold
    /\ \E c \in CandidateSet : c.lastAccessed = 0
    /\ \E c \in CandidateSet : c.reason = "stale"

UrlsDistinct == \A i, j \in DOMAIN tabs : i # j => tabs[i].url # tabs[j].url

\* every lastAccessed there is lies less than two hours back
AllWithinThreshold ==
    \A t \in TabSet : HasLastAccessed(t) => detectedAt - t.lastAccessed < 7200000

\* C9: when all URLs are pairwise distinct and every lastAccessed is within
\* the two-hour threshold, the result is the empty list.
C9_NothingToCleanUp ==
    (Called /\ UrlsDistinct /\ AllWithinThreshold) => cleanupCandidates = <<>>

C9_Witness ==
    /\ Called /\ UrlsDistinct /\ AllWithinThreshold
    /\ Len(tabs) = 2
    /\ \E t \in TabSet : HasLastAccessed(t)
    /\ \E t \in TabSet : ~ HasLastAccessed(t)
    /\ cleanupCandidates = <<>>

----------------------------------------------------------------------------
(* Vocabulary of the properties of the apply engine, stated on the browser *)
(* API traffic of the request being served.                                *)

\* create-group, update-group and the metadata write, as issued
GroupingWrites == {"tabs.group", "tabGroups.update", "tabs.update"}

\* the close request has settled
CloseSettled == {"tabs.remove:done", "tabs.remove:rejected"}

ClosingRequest == call.entry = "applyCleanup" /\ Len(call.tabIdsToClose) > 0

\* C10: in applyCleanup no create-group, update-group or metadata write is
\* issued before the close request for tabIdsToClose has completed.
C10_CloseBeforeGrouping ==
    ClosingRequest =>
        \A i \in DOMAIN log :
            log[i] \in GroupingWrites =>
                \E j \in DOMAIN log : j < i /\ log[j] \in CloseSettled

\* a request that closes tabs and then groups, on either path
C10_Witness ==
    /\ ClosingRequest
    /\ response = "success"
    /\ \E i, j \in DOMAIN log :
          i < j /\ log[i] \in CloseSettled /\ log[j] \in GroupingWrites

----------------------------------------------------------------------------
CleanupRequest == call.entry = "applyCleanup"

\* id is one of the ids the request asks to close
ToClose(id) == InSeq(call.tabIdsToClose, id)

\* every id of every group of the request is to be closed
NoGroupSurvives ==
    \A i \in DOMAIN call.requestGroups :
        \A k \in DOMAIN call.requestGroups[i].tabIds :
            ToClose(call.requestGroups[i].tabIds[k])

RemoveTraffic == {"tabs.remove"} \cup CloseSettled

\* C11: applyCleanup(ids, groups) hands to the grouping step only groups that
\* are not empty and hold no id of ids, keeps every other id in its group,
\* and does not run the grouping step at all when no group survives.
C11_StrippedBeforeGrouping ==
    CleanupRequest =>
        /\ call.handed =>
              /\ \A j \in DOMAIN call.groups :
                    /\ Len(call.groups[j].tabIds) > 0
                    /\ \A k \in DOMAIN call.groups[j].tabIds :
                          ~ ToClose(call.groups[j].tabIds[k])
              /\ \A i \in DOMAIN call.requestGroups :
                    \A k \in DOMAIN call.requestGroups[i].tabIds :
                        LET id == call.requestGroups[i].tabIds[k]
                        IN  ~ ToClose(id) =>
                              \E j \in DOMAIN call.groups :
                                  /\ call.groups[j].groupName =
                                         call.requestGroups[i].groupName
                                  /\ InSeq(call.groups[j].tabIds, id)
        /\ NoGroupSurvives =>
              /\ ~ call.handed
              /\ \A e \in DOMAIN log : log[e] \in RemoveTraffic

\* of two groups one loses a tab and the other is dropped
C11_Witness ==
    /\ CleanupRequest
    /\ call.handed
    /\ response = "success"
    /\ Len(call.requestGroups) = 2
    /\ Len(call.groups) = 1
    /\ Len(call.groups[1].tabIds) < Len(call.requestGroups[1].tabIds)

----------------------------------------------------------------------------
\* the request was answered with the 'not supported' error
NotSupportedReturned == call.pc = "idle" /\ response = NotSupported

\* C12: when an apply request fails with the 'not supported in this browser'
\* error nothing has been applied: the request has closed no tab, grouped
\* none and rewritten no metadata.
C12_UnsupportedNeverPartial ==
    NotSupportedReturned =>
        \A e \in DOMAIN log : log[e] \notin RemoveTraffic \cup GroupingWrites

----------------------------------------------------------------------------
\* the close request of an applyCleanup has settled, one way or the other
RemoveSettled == CleanupRequest /\ \E e \in DOMAIN log : log[e] \in CloseSettled

\* C13: once the close request of applyCleanup has settled, also by a
\* rejection for a tab the user had closed already, no tab of tabIdsToClose is
\* open any more.
C13_RestStillClosed ==
    RemoveSettled => \A t \in openTabs : ~ ToClose(t)

----------------------------------------------------------------------------
\* the grouping step has run on the native-groups path and has returned
NativeGroupingDone ==
    /\ call.handed
    /\ call.pc = "idle"
    /\ groupingStrategy = "chrome-groups"

\* C14: on the native-groups path the grouping step succeeds whatever tabs
\* have vanished since the proposal: a vanished tab is skipped and does not
\* abort the batch.
C14_VanishedTabSkipped == NativeGroupingDone => response = "success"

----------------------------------------------------------------------------
\* the request took the metadata-stacks path and has been answered
MetadataGroupingDone ==
    /\ call.pc = "idle"
    /\ \E e \in DOMAIN log : log[e] = "tabs.get"

\* tab t carries the title of a group of the request that lists it
WrittenForItsGroup(t) ==
    \E j \in DOMAIN call.groups :
        /\ InSeq(call.groups[j].tabIds, t)
        /\ vivExtData[t].fixedGroupTitle = call.groups[j].groupName

\* C15: on the metadata-stacks path a tab that no longer exists when it is
\* fetched or written is skipped: the call succeeds and every listed tab that
\* is still open has been written.
C15_MissingTabSkipped ==
    MetadataGroupingDone =>
        /\ response = "success"
        /\ \A j \in DOMAIN call.groups :
              \A k \in DOMAIN call.groups[j].tabIds :
                  call.groups[j].tabIds[k] \in openTabs =>
                      WrittenForItsGroup(call.groups[j].tabIds[k])

----------------------------------------------------------------------------
\* both requests of the comparison have been answered
BothAnswered ==
    /\ Len(runs) = 1
    /\ call.pc = "idle"
    /\ call.entry = "applyTabGroups"

\* some group of the request lists a tab
SomeGroupHasTabs ==
    \E i \in DOMAIN call.requestGroups : Len(call.requestGroups[i].tabIds) > 0

----------------------------------------------------------------------------
Strategies == {"chrome-groups", "vivaldi-stacks", "unsupported"}

\* detectStrategy has run to its end at least once
Detected == groupingStrategy # "null"

\* C17: detectStrategy classifies by ordered checks, first match wins: with
\* the native tab-groups API the result is 'chrome-groups' whatever the tabs
\* carry; otherwise 'vivaldi-stacks' if the probed tab carries the field;
\* otherwise, also with no tab or a throwing probe, 'unsupported'.  The
\* result is one of these three values.
C17_OrderedChecks ==
    /\ Detected => groupingStrategy \in Strategies
    /\ HasTabGroups(host) => groupingStrategy = "chrome-groups"
    /\ (~ HasTabGroups(host) /\ Detected) =>
          /\ lastProbe \in {"field", "no field", "no tabs", "throws"}
          /\ groupingStrategy = IF lastProbe = "field" THEN "vivaldi-stacks"
                                 ELSE "unsupported"

\* each branch of the classification has been taken
C17_Witness ==
    /\ ~ HasTabGroups(host)
    /\ startupPc = "done"
    /\ lastProbe = "throws"
    /\ groupingStrategy = "unsupported"

C17_WitnessField ==
    /\ ~ HasTabGroups(host)
    /\ lastProbe = "field"
    /\ groupingStrategy = "vivaldi-stacks"

C17_WitnessNative ==
    /\ HasTabGroups(host)
    /\ IsVivaldi(host)
    /\ call.pc = "idle"
    /\ response = "success"
    /\ groupingStrategy = "chrome-groups"

----------------------------------------------------------------------------
\* the detection made at load has not settled
StartupInFlight == startupPc = "querying"

\* applyTabGroups has called detectStrategy() itself and awaits its query
IndependentProbe == call.pc = "awaitDetectQuery"

\* the strategies the callers have been given: the getStrategy replies, and
\* the strategy an apply request went on with
Observed ==
    {strategyReplies[i] : i \in DOMAIN strategyReplies}
    \cup (IF call.handed /\ ~ IndependentProbe THEN {groupingStrategy} ELSE {})

\* C18: the probe runs at most once per process: a getStrategy or apply
\* request arriving while the detection made at load is in flight waits for
\* that detection and starts none of its own, and all such callers observe
\* the same strategy, which is not null.
C18_SingleSharedDetection ==
    /\ ~ IndependentProbe
    /\ "null" \notin Observed
    /\ Cardinality(Observed) <= 1

\* C19: once groupingStrategy is set, it never changes.
C19_CacheNeverChanges ==
    [][groupingStrategy # "null" => groupingStrategy' = groupingStrategy]_vars

----------------------------------------------------------------------------
\* a call of categorizeTabs with an empty settings.apiKey that has settled
EmptyCredentialStarts ==
    {s \in DOMAIN jobStarts :
        jobStarts[s].apiKey = "" /\ jobStarts[s].result # "pending"}

RequestsFor(s) == {r \in DOMAIN aiRequests : aiRequests[r].start = s}

\* the start is the latest one and nothing has been started since
Latest(s) == s = Len(jobStarts)

\* the failure is reported as a configuration error, in the job slot or in
\* the popup
ReportedAsConfigurationError ==
    \/ analysisStatus = "error" /\ analysisError = NoApiKey
    \/ appState = "ERROR" /\ errorMsg = NoApiKey

\* C20: starting a job with an empty credential fails at once as a
\* configuration error: the status becomes 'error' with a message about the
\* configuration, and no request is sent to the AI service for that start.
C20_EmptyCredentialFails ==
    \A s \in EmptyCredentialStarts :
        /\ RequestsFor(s) = {}
        /\ jobStarts[s].result = "threw"
        /\ Latest(s) => ReportedAsConfigurationError


----------------------------------------------------------------------------
(* The job slot under the popup's messages *)

\* the AI requests that have not been answered
Outstanding == {r \in DOMAIN aiRequests : ~ aiRequests[r].settled}

\* a step in which the worker handles startCategorization
StartHandled == Len(aiRequests') = Len(aiRequests) + 1

\* C21: exactly one job is in flight: over every sequence of
\* startCategorization, getCategorizationStatus and
\* resetCategorizationStatus messages at most one AI request is outstanding,
\* and each startCategorization sets the status to 'analyzing' and clears
\* the previous result and error.
C21_OneJobInFlight ==
    [][/\ Cardinality(Outstanding') <= 1
       /\ StartHandled => /\ analysisStatus' = "analyzing"
                          /\ analysisProposals' = <<>>
                          /\ analysisError' = ""]_vars

\* the second part of C21 alone
C21_StartSetsAnalyzing ==
    [][StartHandled => /\ analysisStatus' = "analyzing"
                       /\ analysisProposals' = <<>>
                       /\ analysisError' = ""]_vars

\* two AI requests are outstanding
C21_TwoOutstanding == Cardinality(Outstanding) >= 2


\* the status is terminal
Terminal(status) == status \in {"success", "error"}

\* C22: a startCategorization issued while an earlier request is
\* outstanding does not abort it: the earlier request stays outstanding,
\* to complete later and write its outcome into the slot.
C22_StartDoesNotAbort ==
    [][StartHandled => Outstanding \subseteq Outstanding']_vars

\* the newest request is unanswered, an older one has completed after the
\* newest start and written the slot, and the polling has just read that
\* outcome as the status of the running job
C22_Witness ==
    /\ Len(aiRequests) >= 2
    /\ Len(aiRequests) \in Outstanding
    /\ Terminal(analysisStatus)
    /\ pollPc = "statusReplied"
    /\ readRun # <<>>
    /\ pollReply = Slot

\* the popup shows the older job's outcome while the newest request is
\* unanswered
C22_WitnessShown ==
    /\ Len(aiRequests) \in Outstanding
    /\ Cardinality(Outstanding) = 1
    /\ Len(aiRequests) >= 2
    /\ appState \in {"REVIEW", "ERROR"}
    /\ analysisStatus = "idle"


\* a step in which the mount effect consumes a terminal status: it shows
\* the review or the error
MountConsumesTerminal ==
    /\ mountPc = "statusReplied"
    /\ mountPc' # "statusReplied"
    /\ PopupOpen'
    /\ \/ mountReply.status = "error"
       \/ mountReply.status = "success" /\ Len(mountReply.proposals) > 0

\* a step in which the polling tick consumes a terminal status
PollConsumesTerminal ==
    /\ pollPc = "statusReplied"
    /\ pollPc' # "statusReplied"
    /\ PopupOpen'
    /\ Terminal(pollReply.status)

\* C23: whenever the popup consumes a terminal status, in the polling loop
\* or when the popup is opened, it then sends resetCategorizationStatus.
C23_ConsumeThenReset ==
    [][/\ PollConsumesTerminal => pollPc' = "resetSent"
       /\ MountConsumesTerminal => mountPc' = "resetSent"]_vars

\* the polling loop alone does
C23_PollConsumeThenReset ==
    [][PollConsumesTerminal => pollPc' = "resetSent"]_vars

\* the popup opened on a finished job shows its outcome and has nothing
\* more to send, and the slot still holds the outcome
C23_MountLeavesSlot ==
    /\ reopens > 0
    /\ mountPc = "done"
    /\ pollPc = "idle"
    /\ popupPc = "idle"
    /\ appState \in {"REVIEW", "ERROR"}
    /\ Terminal(analysisStatus)


\* C24: every started job runs to completion provided the AI service
\* eventually answers or fails: each request is settled in the end, and the
\* status does not stay 'analyzing' for ever.
C24_JobsComplete ==
    /\ \A r \in 1..MaxStarts :
          (r \in Outstanding) ~> (r \in DOMAIN aiRequests /\ r \notin Outstanding)
    /\ (analysisStatus = "analyzing") ~> Terminal(analysisStatus)

\* every request sent has been answered and the slot holds an outcome
C24_Witness ==
    /\ aiRequests # <<>>
    /\ Outstanding = {}
    /\ Terminal(analysisStatus)


\* the groups follow the schema {groupName: string, color: one of the eight
\* palette values, tabIds: integers}
ConformsToSchema(groups) ==
    \A i \in DOMAIN groups :
        /\ DOMAIN groups[i] = {"groupName", "color", "tabIds"}
        /\ groups[i].color \in PaletteColors
        /\ \A j \in DOMAIN groups[i].tabIds : groups[i].tabIds[j] \in Int

\* C25: any deviation of the AI response from the schema ends in the status
\* 'error', never in 'success'; a transport failure, a non-success
\* response, an empty content and an unparsable payload end in 'error' with
\* a message.
C25_DeviationIsError ==
    /\ analysisStatus = "success" => ConformsToSchema(analysisProposals)
    /\ analysisStatus = "error" => analysisError # ""

\* the second part of C25 alone
C25_ErrorHasMessage == analysisStatus = "error" => analysisError # ""

\* a job has ended in 'success' with a group whose color is not of the
\* palette
C25_SuccessOffPalette ==
    /\ analysisStatus = "success"
    /\ \E i \in DOMAIN analysisProposals :
          /\ "color" \in DOMAIN analysisProposals[i]
          /\ analysisProposals[i].color \notin PaletteColors


----------------------------------------------------------------------------
(* The popup's applyCleanup requests *)

\* C26: at most one applyCleanup request is in flight: no sequence of the
\* popup's user actions (Apply, Cancel, Settings, Back, Quick Cleanup,
\* Generate Stacks, Try Again) sends a second one before the response to
\* the first arrives.
C26_OneApplyInFlight == applySent <= 1

\* two applyCleanup requests are unanswered
C26_TwoInFlight == applySent >= 2


----------------------------------------------------------------------------
(* The status messages *)

\* a step in which the worker answers getCategorizationStatus
StatusHandled ==
    \/ mountPc = "statusSent" /\ mountPc' = "statusReplied"
    \/ pollPc = "statusSent" /\ pollPc' = "statusReplied"

\* the reply of that step
StatusReply ==
    IF mountPc = "statusSent" /\ mountPc' = "statusReplied"
    THEN mountReply' ELSE pollReply'

\* C27: getCategorizationStatus replies with the current status, proposals
\* and error and changes no background state (status, proposals, error,
\* cached strategy); two consecutive reads with no event between them return
\* the same snapshot.
C27_StatusReadIsPure ==
    [][StatusHandled =>
          /\ StatusReply = Slot
          /\ analysisStatus' = analysisStatus
          /\ analysisProposals' = analysisProposals
          /\ analysisError' = analysisError
          /\ groupingStrategy' = groupingStrategy
          /\ \A i \in DOMAIN readRun' : readRun'[i] = StatusReply]_vars

\* the status of a running job has been read twice in a row
C27_Witness ==
    /\ Len(readRun) = 2
    /\ analysisStatus = "analyzing"
    /\ pollPc = "statusReplied"


\* a step in which the worker handles resetCategorizationStatus
ResetHandled ==
    /\ PopupOpen'
    /\ \/ popupPc = "resetSent" /\ popupPc' = "resetReplied"
       \/ pollPc = "resetSent" /\ pollPc' = "idle"

\* C28: resetCategorizationStatus sets the status to 'idle' and clears the
\* proposals and the error, from every state of the slot, and is
\* idempotent: a second reset changes nothing.
C28_ResetClears ==
    [][ResetHandled =>
          /\ analysisStatus' = "idle"
          /\ analysisProposals' = <<>>
          /\ analysisError' = ""
          /\ ResetSlot(Slot') = Slot']_vars

\* the only job sent has ended, the polling has read its outcome and not
\* yet reset it, and the reset of a new handleAnalyze has cleared the slot
C28_Witness ==
    /\ popupPc = "resetReplied"
    /\ pollPc = "resetSent"
    /\ Len(aiRequests) = 1
    /\ Outstanding = {}
    /\ analysisStatus = "idle"
    /\ analysisProposals = <<>>
    /\ analysisError = ""


----------------------------------------------------------------------------
(* The tab source *)

InternalPrefixes ==
    {<<"chrome", ":", "//">>, <<"edge", ":", "//">>, <<"vivaldi", ":", "//">>,
     <<"about", ":">>, <<"chrome-extension", ":", "//">>}

\* the ids of the pinned tabs of the window
PinnedIds == {windowTabs[i].id : i \in {j \in DOMAIN windowTabs : windowTabs[j].pinned}}

\* C29: no tab list produced by the tab source, by the service worker or by
\* the direct query, contains a pinned tab, a tab with an empty URL, or a
\* tab whose URL starts with chrome://, edge://, vivaldi://, about: or
\* chrome-extension://.
C29_NoInternalTabs ==
    tabListFrom # "none" =>
        \A i \in DOMAIN tabs :
            /\ tabs[i].id \notin PinnedIds
            /\ tabs[i].url # <<>>
            /\ \A p \in InternalPrefixes : ~ StartsWith(tabs[i].url, p)

\* C29 for the lists of the worker and of the direct query of
\* services/tabManager.ts
C29_LaterCopyFilters ==
    tabManagerCopy = "services/tabManager.ts" => C29_NoInternalTabs

\* the direct query has let a vivaldi:// page through
C29_VivaldiPageListed ==
    /\ tabListFrom = "direct"
    /\ \E i \in DOMAIN tabs : StartsWith(tabs[i].url, <<"vivaldi", ":", "//">>)


\* a list has been produced from a window holding a pinned tab, a tab
\* without URL and an internal page, and holds none of them
C29_WitnessFiltered ==
    /\ tabListFrom \in {"worker", "direct"}
    /\ Len(tabs) < Len(windowTabs)
    /\ Len(tabs) > 0


----------------------------------------------------------------------------
(* The shape of the job slot *)

\* C30: in every reachable state of the job slot, 'success' implies an
\* empty error, 'error' implies an empty proposals list, and 'idle' or
\* 'analyzing' implies both empty, also when startCategorization is called
\* while an earlier request is outstanding.
C30_SlotShape ==
    /\ analysisStatus = "success" => analysisError = ""
    /\ analysisStatus = "error" => analysisProposals = <<>>
    /\ analysisStatus \in {"idle", "analyzing"} =>
          analysisError = "" /\ analysisProposals = <<>>

\* the third part of C30 alone
C30_IdleAndAnalyzingEmpty ==
    analysisStatus \in {"idle", "analyzing"} =>
        analysisError = "" /\ analysisProposals = <<>>

\* the slot says 'success' and holds the error of an older request
C30_SuccessWithError == analysisStatus = "success" /\ analysisError # ""

\* the slot says 'error' and holds the proposals of an older request
C30_ErrorWithProposals ==
    analysisStatus = "error" /\ analysisProposals # <<>>


----------------------------------------------------------------------------
(* The slot after a reset *)

\* C31: after resetCategorizationStatus the status stays 'idle' until the
\* next startCategorization: no other event, in particular no completion
\* of a request started before the reset, changes status, proposals or
\* error.
C31_IdleUntilNextStart ==
    [][analysisStatus = "idle" /\ ~ StartHandled =>
          /\ analysisStatus' = "idle"
          /\ analysisProposals' = analysisProposals
          /\ analysisError' = analysisError]_vars

\* C31 when no request is outstanding at the reset
C31_IdleUntilNextStartWhenQuiet ==
    [][analysisStatus = "idle" /\ Outstanding = {} /\ ~ StartHandled =>
          /\ analysisStatus' = "idle"
          /\ analysisProposals' = analysisProposals
          /\ analysisError' = analysisError]_vars

\* the slot holds an outcome although every start was followed by a reset
\* and no start by another start: the popup is sending the start of its
\* second handleAnalyze and the outcome of the first job is in the slot
C31_OutcomeAfterReset ==
    /\ popupPc = "resetReplied"
    /\ Len(aiRequests) = 1
    /\ Terminal(analysisStatus)


----------------------------------------------------------------------------
(* The popup waiting for the job *)

\* C32: after the user clicks Generate Stacks the popup eventually leaves
\* the ANALYZING state for REVIEW or ERROR, provided the AI service
\* eventually answers or fails, for every tab list the popup may hold, the
\* empty list included.
C32_AnalyzingEnds ==
    (appState = "ANALYZING") ~> (appState \in {"REVIEW", "ERROR"})

\* handleAnalyze has returned on an empty tab list: the popup shows the
\* loader, no job was started and no request is outstanding
C32_StuckAnalyzing ==
    /\ appState = "ANALYZING"
    /\ popupPc = "idle"
    /\ pollPc = "idle"
    /\ tabs = <<>>
    /\ CurrentStart.result = "returned []"
    /\ analysisStatus = "idle"
    /\ Outstanding = {}


----------------------------------------------------------------------------
(* The ids sent for closing *)

\* the ids of the candidates listed in the review
CandidateIds == {cleanupCandidates[i].tabId : i \in DOMAIN cleanupCandidates}

\* a step in which handleApply sends applyCleanup
ApplySentStep == applySent' = applySent + 1

\* a step that enters the review
ReviewEntered == appState # "REVIEW" /\ appState' = "REVIEW"

\* C33: the ids the popup sends for closing are a subset of the cleanup
\* candidates computed for the current review that are still checked: on
\* entering review every candidate is checked, and a tab that was never
\* listed as a candidate or that the user unchecked is never in
\* tabIdsToClose.
C33_ClosesOnlyCheckedCandidates ==
    [][/\ ApplySentStep => /\ tabIdsToClose' \subseteq CandidateIds
                           /\ tabIdsToClose' = selectedCleanupIds
       /\ ReviewEntered => selectedCleanupIds' = CandidateIds'
       /\ selectedCleanupIds' \subseteq CandidateIds']_vars

\* an applyCleanup message has been sent from a review that lists a
\* candidate the user unchecked
C33_Witness ==
    /\ appState = "APPLYING"
    /\ applySent = 1
    /\ CandidateIds # {}
    /\ tabIdsToClose = {}
    /\ selectedCleanupIds = {}

\* an applyCleanup message has been sent with a checked candidate, from the
\* review the polling opened
C33_WitnessChecked ==
    /\ appState = "APPLYING"
    /\ applySent = 1
    /\ ~ cleanupOnly
    /\ tabIdsToClose # {}
    /\ tabIdsToClose = CandidateIds


----------------------------------------------------------------------------
(* The popup's flow *)

\* a step that enters the view s
Entered(s) == appState # s /\ appState' = s

\* APPLYING is entered only from REVIEW
ApplyingOnlyFromReview == Entered("APPLYING") => appState = "REVIEW"

\* an apply request is sent only on entering APPLYING
ApplySentOnlyOnEntering == ApplySentStep => Entered("APPLYING")

\* REVIEW is entered only from ANALYZING
ReviewOnlyFromAnalyzing == Entered("REVIEW") => appState = "ANALYZING"

\* SUCCESS is entered only from APPLYING
SuccessOnlyFromApplying == Entered("SUCCESS") => appState = "APPLYING"

\* C34: APPLYING is entered only from REVIEW, an apply request is sent only
\* on entering APPLYING, REVIEW is entered only from ANALYZING, and SUCCESS
\* is entered only from APPLYING.
C34_CoreFlow ==
    [][/\ ApplyingOnlyFromReview
       /\ ApplySentOnlyOnEntering
       /\ ReviewOnlyFromAnalyzing
       /\ SuccessOnlyFromApplying]_vars

\* the first two parts of C34 alone
C34_ApplyOnlyFromReview ==
    [][ApplyingOnlyFromReview /\ ApplySentOnlyOnEntering]_vars

\* the third part of C34 alone
C34_ReviewOnlyFromAnalyzing == [][ReviewOnlyFromAnalyzing]_vars

\* the fourth part of C34 alone
C34_SuccessOnlyFromApplying == [][SuccessOnlyFromApplying]_vars

\* the quick cleanup found nothing to close and shows the success view
C34_SuccessWithoutApply ==
    /\ appState = "SUCCESS"
    /\ applySent = 0
    /\ cleanupOnly
    /\ cleanupCandidates = <<>>


----------------------------------------------------------------------------
(* The slot and the popup's lifecycle *)

\* a step in which the popup closes, or opens again
PopupCloses == PopupOpen /\ ~ PopupOpen'

PopupOpens == ~ PopupOpen /\ PopupOpen'

\* a step in which the mount effect of a popup opened again resumes with the
\* status it read
MountResumes ==
    /\ reopens > 0
    /\ mountPc = "statusReplied"
    /\ mountPc' = "done"
    /\ PopupOpen'

\* the view a status is resumed in
ResumedView(status) ==
    CASE status = "analyzing" -> "ANALYZING"
      [] status = "success"   -> "REVIEW"
      [] status = "error"     -> "ERROR"
      [] OTHER                -> "IDLE"

\* closing or reopening the popup changes neither status nor result
LifecycleLeavesSlot == PopupCloses \/ PopupOpens => UNCHANGED slotVars

\* a terminal status stays until an explicit reset or a new start
TerminalStays ==
    Terminal(analysisStatus) /\ ~ ResetHandled /\ ~ StartHandled
        => UNCHANGED slotVars

\* a popup opened later resumes from the status
ResumesFromSlot ==
    MountResumes /\ mountReply.status # "idle"
        => appState' = ResumedView(mountReply.status)

\* C35: the job slot is independent of the popup's lifecycle: closing or
\* reopening the popup changes neither status nor result, a terminal status
\* remains readable until an explicit reset or a new start, and a popup
\* opened later resumes from it (analyzing to ANALYZING, success to REVIEW,
\* error to ERROR).
C35_SlotOutlivesPopup ==
    [][LifecycleLeavesSlot /\ TerminalStays /\ ResumesFromSlot]_vars

\* the first part of C35 alone
C35_LifecycleLeavesSlot == [][LifecycleLeavesSlot]_vars

\* the second part of C35 alone
C35_TerminalStays == [][TerminalStays]_vars

\* the last part of C35 alone
C35_ResumesFromSlot == [][ResumesFromSlot]_vars

\* the last part of C35 when the finished job proposed a group
C35_ResumesUnlessNoGroup ==
    [][MountResumes /\ mountReply.status # "idle"
          /\ ~ (mountReply.status = "success" /\ mountReply.proposals = <<>>)
          => appState' = ResumedView(mountReply.status)]_vars

\* a job started before the popup closed has completed while it was closed
C35_CompletedWhileClosed ==
    /\ ~ PopupOpen
    /\ Terminal(analysisStatus)
    /\ Outstanding = {}

\* a popup opened later stays idle on a finished job without a group
C35_IdleOnSuccess ==
    /\ reopens > 0
    /\ mountPc = "done"
    /\ appState = "IDLE"
    /\ analysisStatus = "success"
    /\ analysisProposals = <<>>
    /\ Len(aiRequests) = 1


----------------------------------------------------------------------------
(* duplicateOfTabId *)

\* the tab is flagged as a duplicate in the returned list
FlaggedDuplicate(t) == \E c \in CandidatesOf(t) : c.reason \in DuplicateReasons

\* the tab is the one tab of its URL group that the detector keeps
KeptOfGroup(k) ==
    /\ ~ FlaggedDuplicate(k)
    /\ \A u \in SameUrl(k) : u # k => FlaggedDuplicate(u)

\* C36: in every candidate list returned by detectCleanupCandidates,
\* duplicateOfTabId is set if and only if the reason is 'duplicate' or
\* 'stale+duplicate', and when set it is the id of a different tab of the
\* input that has the same URL and is the keeper of that URL group.
C36_DuplicateOfIsKeeper ==
    Called =>
        \A c \in CandidateSet :
            /\ c.duplicateOfTabId # Undefined <=> c.reason \in DuplicateReasons
            /\ c.duplicateOfTabId # Undefined =>
                  \E t, k \in TabSet :
                      /\ t.id = c.tabId
                      /\ k.id = c.duplicateOfTabId
                      /\ k.id # t.id
                      /\ k.url = t.url
                      /\ KeptOfGroup(k)

\* the keeper named by a candidate is first in the order of the sort: no
\* tab of the group has a greater lastAccessed ?? 0, nor the same with a
\* greater id
C36_KeeperIsFirstOfSort ==
    Called =>
        \A c \in CandidateSet : c.duplicateOfTabId # Undefined =>
            \E k \in TabSet :
                /\ k.id = c.duplicateOfTabId
                /\ \A u \in SameUrl(k) : KeeperCompare(k, u) <= 0

\* a list with a duplicate that was upgraded to the combined reason and
\* with a stale tab that is no duplicate
C36_Witness ==
    /\ Called
    /\ \E c, d \in CandidateSet :
          /\ c.reason = "stale+duplicate"
          /\ c.duplicateOfTabId # Undefined
          /\ d.reason = "stale"
          /\ d.duplicateOfTabId = Undefined


----------------------------------------------------------------------------
(* The ids given to chrome.tabs.group *)

\* the tabIds of the chrome.tabs.group call the worker is waiting for
GroupCallIds == ValidIds(call.groups[call.gi], call.existing)

\* the group has an id that the re-query returned
HasExisting(group, existing) == \E i \in DOMAIN group.tabIds : group.tabIds[i] \in existing

\* a step of the native-groups loop that goes on to the next create-group
\* call or ends the loop with success
LoopAdvances ==
    /\ call.pc \in {"awaitExistQuery", "awaitUpdate"}
    /\ \/ call'.pc = "awaitGroup"
       \/ call'.pc = "idle" /\ response' = "success"

\* the group the loop was at before the step, and the one it is at after
LoopFrom == IF call.pc = "awaitExistQuery" THEN 0 ELSE call.gi

LoopTo == IF call'.pc = "awaitGroup" THEN call'.gi ELSE Len(call'.groups) + 1

C37_WitnessFiltered ==
    /\ call.pc = "awaitGroup"
    /\ Len(GroupCallIds) < Len(call.groups[call.gi].tabIds)


----------------------------------------------------------------------------
(* Stack identifiers *)

\* the worker is in the loop over the tabs of a group
InStackLoop(c) == c.pc \in {"awaitGet", "awaitWrite"}

\* a step in which applyTabGroupsVivaldi goes on to a group and draws its id
StackEntered ==
    /\ InStackLoop(call')
    /\ ~ InStackLoop(call) \/ call'.gi # call.gi

\* a step that stays with the group
StackGoesOn == InStackLoop(call) /\ InStackLoop(call') /\ call'.gi = call.gi

\* a step in which chrome.tabs.update has written the tab
TabWritten(t) ==
    /\ call.pc = "awaitWrite"
    /\ call.groups[call.gi].tabIds[call.ti] = t
    /\ vivExtData'[t] # vivExtData[t] \/ call'.pc # "awaitWrite"
    /\ t \in openTabs

\* the stack ids the tabs carry
StackIdsInUse == {vivExtData[t].group : t \in ApplyTabIds} \ {"undefined"}

\* the ids drawn so far
DrawnIds == {Uuid(n) : n \in 1..(nextUuid - 1)}

\* two tabs carry the same drawn id
ShareDrawnId(t, u) ==
    vivExtData[t].group \in DrawnIds /\ vivExtData[u].group = vivExtData[t].group

\* a group of a request can list both tabs
CoListed(t, u) == \E ids \in TabIdLists : InSeq(ids, t) /\ InSeq(ids, u)

\* C38: on the metadata-stacks path every group gets a fresh stack
\* identifier: all tabs written for one group receive the same identifier,
\* and two different groups, in the same or in different apply calls, never
\* receive the same identifier.
C38_FreshStackIdPerGroup ==
    [][/\ StackEntered =>
             /\ call'.stackId \notin StackIdsInUse
             /\ call'.stackId \notin DrawnIds
             /\ call'.stackId \in DrawnIds'
       /\ StackGoesOn => call'.stackId = call.stackId
       /\ \A t \in ApplyTabIds :
             TabWritten(t) => vivExtData'[t].group = call.stackId
       /\ \A t, u \in ApplyTabIds : ShareDrawnId(t, u)' => CoListed(t, u)]_vars

\* two requests have been answered: tabs 2 and 3, written for one group of
\* the second, share an id that differs from the one tab 1 got in the first
C38_Witness ==
    /\ call.pc = "idle"
    /\ requests = 2
    /\ vivExtData[1].group \in DrawnIds
    /\ vivExtData[3].group \in DrawnIds
    /\ vivExtData[2].group = vivExtData[3].group
    /\ vivExtData[1].group # vivExtData[3].group

\* two groups of one request have been written, with different ids
C38_WitnessOneCall ==
    /\ call.pc = "idle"
    /\ requests = 1
    /\ Len(call.groups) = 2
    /\ vivExtData[1].group \in DrawnIds
    /\ vivExtData[3].group \in DrawnIds
    /\ vivExtData[1].group # vivExtData[3].group


----------------------------------------------------------------------------
(* The metadata blob *)

\* the tab is listed in a group of the request being served
ListedInRequest(t) ==
    \E g \in DOMAIN call.groups : InSeq(call.groups[g].tabIds, t)

\* the two blobs differ at most in the fields the worker writes
SameButStackFields(old, new) ==
    new = [old EXCEPT !.present = new.present,
                      !.group = new.group,
                      !.fixedGroupTitle = new.fixedGroupTitle,
                      !.tabGroupColor = new.tabGroupColor]

\* C39: writing a tab on the metadata-stacks path merges into the tab's
\* existing metadata blob: only the stack-identifier, title and color
\* fields change, every other field already stored for that tab is
\* preserved, and the metadata of tabs not listed in any group is left
\* unchanged.
C39_WriteMergesBlob ==
    [][\A t \in ApplyTabIds :
          /\ vivExtData'[t] # vivExtData[t] =>
                /\ TabWritten(t)
                /\ ListedInRequest(t)
                /\ SameButStackFields(vivExtData[t], vivExtData'[t])
          /\ TabWritten(t) =>
                /\ vivExtData'[t].present
                /\ vivExtData'[t].other = vivExtData[t].other
                /\ vivExtData'[t].fixedGroupTitle = call.groups[call.gi].groupName]_vars

\* tab 3, which Vivaldi keeps a thumbnail for and had in a stack of its
\* own, has been written; tab 1 is in no group of the request
C39_Witness ==
    /\ call.pc = "idle"
    /\ response = "success"
    /\ ~ ListedInRequest(1)
    /\ vivExtData[1] = InitialExtData(host, 1)
    /\ vivExtData[3].group \in DrawnIds
    /\ vivExtData[3].fixedGroupTitle # "Old"
    /\ vivExtData[3].other = "thumb-n"

====
